---- MODULE Spec2Model ----
(***************************************************************************)
(* Renderer/device lifecycle manager of the GS plugin                      *)
(* (src/plugins/GS/GS.cpp): GSinit, GSopen2 -> _GSopen, GSclose,           *)
(* GSshutdown and the process-wide state they share.                       *)
(*                                                                         *)
(* Objects on the C++ heap are numbered: every `new` that succeeds hands   *)
(* out the next unused identifier, NULL is 0.  Two pointers are the same   *)
(* object exactly when the identifiers are equal.                          *)
(***************************************************************************)
EXTENDS Integers, Sequences, FiniteSets, TLC

\* ---------------------------------------------------------------- bounds
\* identifiers the heap may hand out before the host stops opening
MaxId == 3

NULL == 0

\* ------------------------------------------------------------ input sets
\* hw_render.context_type
ContextTypes == {"DIRECT3D", "NONE", "OPENGL"}

\* values of the renderer option string
OptionStrings == {"Software", "OpenGL"}

\* flags argument of GSopen2: bit 2 (value 4) and one other bit
FlagValues == {0, 4, 5}

\* basemem pointers the host passes
BaseMems == {1, 2}

VARIABLES
    win32,                    \* build has _WIN32 defined
    is_initialised,           \* GSdxApp::Init static
    m_current_renderer_type,  \* static GSRendererType; "Zero" is the
                              \* zero-initialised value before Init ran
    is_d3d,                   \* static bool
    s_gs,                     \* GSRenderer* (identifier, NULL = 0)
    gs_kind,                  \* concrete class of *s_gs
    gs_threads,               \* thread count a GSRendererSW was built with
    m_dev,                    \* s_gs->m_dev (identifier, NULL = 0)
    regsmem,                  \* register memory bound into *s_gs
    liveDevs,                 \* GSDevice objects constructed and not deleted
    nextId,                   \* next identifier `new` hands out
    stored_toggle_state,      \* GSopen2 static
    m_current_configuration,  \* GSdxApp: option name -> string value
    last                      \* the exported call that ran last

\* GSVector.cpp
VARIABLES
    vectors_init,             \* the InitVectors functions have run: before,
                              \* the static tables m_xff, m_x0f hold zeros
    vq                        \* a reader of one mask byte: which byte,
                              \* and what it read

\* fifo_alloc / fifo_free and the memory they manage
VARIABLES
    s_shm_fd,                 \* POSIX build: static int, -1 = none
    s_fh,                     \* Windows build: static HANDLE, NULL = none
    s_Next,                   \* Windows build: static u8* s_Next[8]
    vm,                       \* views mapped, files open, file lengths,
                              \* bytes holding 1, next address handed out
    fcall                     \* the fifo call that ran last

\* GSfreeze and what it works on
VARIABLES
    gs,                       \* the emulation state held by *s_gs
    fd,                       \* the host's GSFreezeData: size and data
    fz                        \* the freeze-related call that ran last

gsVars == <<is_initialised, m_current_renderer_type, is_d3d, s_gs, gs_kind,
            gs_threads, m_dev, regsmem, liveDevs, nextId, stored_toggle_state,
            m_current_configuration, last>>

vecVars == <<vectors_init, vq>>

fifoVars == <<s_shm_fd, s_fh, s_Next, vm, fcall>>

freezeVars == <<gs, fd, fz>>

\* the state the lifecycle calls leave alone
otherVars == <<vq, fifoVars, fd, fz>>

vars == <<win32, gsVars, vectors_init, gs, otherVars>>

\* ------------------------------------------------- program state as a value
St ==
    [ s_gs |-> s_gs, gs_kind |-> gs_kind, threads |-> gs_threads,
      m_dev |-> m_dev, regsmem |-> regsmem, type |-> m_current_renderer_type,
      is_d3d |-> is_d3d, live |-> liveDevs, next |-> nextId,
      toggle |-> stored_toggle_state, init |-> is_initialised,
      conf |-> m_current_configuration, vinit |-> vectors_init,
      gs |-> gs, calls |-> <<>>, ret |-> 0, dev |-> NULL, renderer |-> "-",
      reachedCD |-> FALSE, devClass |-> "none", glOk |-> TRUE,
      raised |-> FALSE, crashed |-> FALSE, size |-> 0,
      addr |-> [hi |-> 0, lo |-> 0] ]

Log(st, what, obj) == [st EXCEPT !.calls = Append(@, <<what, obj>>)]

\* ------------------------------------------------- GSdxApp configuration
\* A string is a sequence of one-character strings.  Of the option names
\* GSdxApp::Init gives a default, the model keeps two; "vsync" is a name it
\* gives none.
ConfigKeys == {"extrathreads", "override_geometry_shader", "vsync"}

\* m_current_configuration["extrathreads"] = "2"; ...["override_geometry_shader"] = "-1";
DefaultConfiguration ==
    [k \in {"extrathreads", "override_geometry_shader"} |->
        IF k = "extrathreads" THEN <<"2">> ELSE <<"-", "1">>]

\* the map of a process where GSdxApp::Init has not run
NoConfiguration == [k \in {} |-> <<>>]

INT_MAX == 2147483647

Digits10 == <<"0", "1", "2", "3", "4", "5", "6", "7", "8", "9">>

IsDigit(c) == \E i \in 1..10 : Digits10[i] = c

DigitVal(c) == (CHOOSE i \in 1..10 : Digits10[i] = c) - 1

RECURSIVE SkipSpace(_)
SkipSpace(str) ==
    IF str # <<>> /\ Head(str) = " " THEN SkipSpace(Tail(str)) ELSE str

\* the digits at the front of str: their value and how many there are
RECURSIVE ParseDigits(_, _, _)
ParseDigits(str, acc, n) ==
    IF str # <<>> /\ IsDigit(Head(str))
    THEN ParseDigits(Tail(str), acc * 10 + DigitVal(Head(str)), n + 1)
    ELSE [val |-> acc, n |-> n]

\* std::stoi: white space, an optional sign, decimal digits; what follows
\* the digits is ignored.  It throws std::invalid_argument when there is no
\* digit to convert and std::out_of_range when the value is no int.
Stoi(str) ==
    LET t    == SkipSpace(str)
        sign == t # <<>> /\ Head(t) \in {"-", "+"}
        p    == ParseDigits(IF sign THEN Tail(t) ELSE t, 0, 0)
    IN  IF p.n = 0 \/ p.val > INT_MAX
        THEN [raised |-> TRUE, val |-> 0]
        ELSE [raised |-> FALSE,
              val |-> IF sign /\ Head(t) = "-" THEN 0 - p.val ELSE p.val]

\* std::map::operator[]: a name the map does not hold is inserted with ""
Entry(conf, entry) ==
    IF entry \in DOMAIN conf THEN conf
    ELSE [k \in DOMAIN conf \cup {entry} |->
            IF k = entry THEN <<>> ELSE conf[k]]

\* m_current_configuration[entry] = value;
SetConfig(st, entry, value) ==
    [st EXCEPT !.conf = [k \in DOMAIN st.conf \cup {entry} |->
                            IF k = entry THEN value ELSE st.conf[k]]]

\* return m_current_configuration[entry];
GetConfigS(st, entry) ==
    [st EXCEPT !.conf = Entry(st.conf, entry),
               !.ret = Entry(st.conf, entry)[entry]]

\* return std::stoi(m_current_configuration[entry]);
GetConfigI(st, entry) ==
    LET r == Stoi(Entry(st.conf, entry)[entry])
    IN  [st EXCEPT !.conf = Entry(st.conf, entry),
                   !.ret = r.val, !.raised = r.raised]

\* return !!GetConfigI(entry);
GetConfigB(st, entry) ==
    LET a == GetConfigI(st, entry)
    IN  IF a.raised THEN a ELSE [a EXCEPT !.ret = (a.ret # 0)]

\* the emulation state of a Renderer just constructed
FreshEmu == [regs |-> 0, crc |-> 0]

\* ------------------------------------------------------- object teardown
\* delete of a GSDevice pointer (delete NULL does nothing)
DeleteDevice(st, d) ==
    IF d = NULL THEN st
    ELSE Log([st EXCEPT !.live = @ \ {d}], "delete GSDevice", d)

\* delete s_gs: the Renderer's destructor destroys the Device it owns
DeleteRenderer(st) ==
    IF st.s_gs = NULL THEN st
    ELSE LET a == Log(st, "delete GSRenderer", st.s_gs)
             b == DeleteDevice(a, st.m_dev)
         IN  [b EXCEPT !.m_dev = NULL, !.gs_kind = "none", !.threads = 0,
                       !.regsmem = NULL, !.gs = FreshEmu]

\* GSRenderer::ResetDevice: resets the Device the Renderer holds, if any
ResetDevice(st) ==
    LET a == Log(st, "ResetDevice", st.s_gs)
    IN  IF st.m_dev = NULL THEN a ELSE Log(a, "GSDevice::Reset", st.m_dev)

\* GSRenderer::SetRegsMem: binds the pointer
SetRegsMem(st, basemem) ==
    Log([st EXCEPT !.regsmem = basemem], "SetRegsMem", basemem)

\* GSRenderer::CreateDevice: takes ownership of dev; false on failed setup
CreateDevice(st, dev, ok) ==
    Log([st EXCEPT !.m_dev = dev, !.reachedCD = TRUE], "CreateDevice", dev)

\* ------------------------------------------------------------ GSshutdown
\* variant: the current variant is left as it was
GSshutdown_KeepType(st) ==
    [DeleteRenderer(st) EXCEPT !.s_gs = NULL]

GSshutdown(st) ==
    [DeleteRenderer(st) EXCEPT !.s_gs = NULL, !.type = "Undefined"]

\* ------------------------------------------ calls handed to the Renderer
\* s_gs->what(...): none of the exported functions tests the pointer.  A call
\* through a null pointer is undefined: it is recorded in crashed, and the
\* process either ends there (no further step is taken) or the call returns
\* having touched nothing and the host goes on
OnRenderer(st, what) ==
    IF st.s_gs = NULL THEN [Log(st, what, NULL) EXCEPT !.crashed = TRUE]
    ELSE Log(st, what, st.s_gs)

\* GSState::Transfer<path>: the emulated registers take a new value
Transfer(st, path, regs) ==
    LET what == CASE path = 0 -> "Transfer<0>"
                  [] path = 1 -> "Transfer<1>"
                  [] path = 2 -> "Transfer<2>"
                  [] OTHER    -> "Transfer<3>"
    IN  IF st.s_gs = NULL THEN OnRenderer(st, what)
        ELSE [OnRenderer(st, what) EXCEPT !.gs.regs = regs]

\* s_gs->Reset();
GSreset(st) ==
    IF st.s_gs = NULL THEN OnRenderer(st, "Reset")
    ELSE [OnRenderer(st, "Reset") EXCEPT !.gs.regs = 0]

\* s_gs->SoftReset(mask);
GSgifSoftReset(st, mask) ==
    IF st.s_gs = NULL \/ mask = 0 THEN OnRenderer(st, "SoftReset")
    ELSE [OnRenderer(st, "SoftReset") EXCEPT !.gs.regs = 0]

\* s_gs->ReadFIFO(mem, size);
GSreadFIFO2(st, size) == OnRenderer(st, "ReadFIFO")

\* if (size > 0) s_gs->InitReadFIFO(mem, size);
GSinitReadFIFO2(st, size) ==
    IF size > 0 THEN OnRenderer(st, "InitReadFIFO") ELSE st

\* a u32 is held as its two 16-bit halves: the value is hi * 2^16 + lo
U16 == 65536

U32Of(hi, lo) == [hi |-> hi, lo |-> lo]

\* a - b in u32 arithmetic: modulo 2^32, the borrow carried into the high half
Sub32(a, b) ==
    U32Of((a.hi - b.hi - (IF a.lo < b.lo THEN 1 ELSE 0)) % U16,
          (a.lo - b.lo) % U16)

\* a / 16 in u32 arithmetic, as a number: it is below 2^28
Div16(a) == a.hi * (U16 \div 16) + a.lo \div 16

\* 0x4000: the block GSgifTransfer1 reads from
BlockSize == 16384

\* (0x4000 - addr) / 16: addr is u32, so the int 0x4000 is converted and the
\* difference is taken modulo 2^32
Transfer1Count(addr) == Div16(Sub32(U32Of(0, BlockSize), addr))

\* s_gs->Transfer<0>(mem + addr, (0x4000 - addr) / 16);
GSgifTransfer1(st, addr, regs) ==
    [Transfer(st, 0, regs) EXCEPT !.addr = addr,
                                  !.size = Transfer1Count(addr)]

\* s_gs->Transfer<1>(mem, size);
GSgifTransfer2(st, regs) == Transfer(st, 1, regs)

\* s_gs->Transfer<2>(mem, size);
GSgifTransfer3(st, regs) == Transfer(st, 2, regs)

\* s_gs->VSync(field);
GSvsync(st) == OnRenderer(st, "VSync")

\* GSRenderer::GetInternalResolution: the Null Renderer reports one fixed
\* value, the others what the emulation has set up
GetInternalResolution(kind, emu) ==
    IF kind = "GSRendererNull" THEN 0 ELSE emu.regs

\* --------------------------------------------------------------- GSclose
\* variant: the device pointer is not cleared after the delete
GSclose_KeepPtr(st) ==
    IF st.s_gs = NULL THEN st
    ELSE LET a == ResetDevice(st)
         IN  DeleteDevice(a, a.m_dev)

\* variant: no test of the renderer pointer
GSclose_NoGuard(st) ==
    LET a == ResetDevice(st)
        b == DeleteDevice(a, a.m_dev)
    IN  [b EXCEPT !.m_dev = NULL]

\* variant: the Device is deleted before it is reset
GSclose_DeleteFirst(st) ==
    IF st.s_gs = NULL THEN st
    ELSE LET a == DeleteDevice(st, st.m_dev)
             b == ResetDevice(a)
         IN  [b EXCEPT !.m_dev = NULL]

GSclose(st) ==
    IF st.s_gs = NULL THEN st
    ELSE LET a == ResetDevice(st)
             b == DeleteDevice(a, a.m_dev)
         IN  [b EXCEPT !.m_dev = NULL]

\* --------------------------------------------------------------- _GSopen
\* variant: the current variant is updated and the Renderer stays
TearDownOnChange_KeepRenderer(st, renderer) ==
    [st EXCEPT !.type = renderer]

\* variant: the Renderer is torn down on every open
TearDownOnChange_Always(st, renderer) ==
    [DeleteRenderer(st) EXCEPT !.s_gs = NULL, !.type = renderer]

\* if (m_current_renderer_type != renderer) { delete s_gs; ... }
TearDownOnChange(st, renderer) ==
    IF st.type # renderer
    THEN [DeleteRenderer(st) EXCEPT !.s_gs = NULL, !.type = renderer]
    ELSE st

\* the variants whose open loads the GL entry points
GLVariants == {"OGL_HW", "OGL_SW"}

\* first switch: the GL variants load entry points and check requirements;
\* glOk is what the check found, and the statement drops it
LoadGL(st, renderer, glOk) ==
    IF renderer \in GLVariants
    THEN Log([st EXCEPT !.glOk = glOk], "check_gl_requirements", NULL)
    ELSE st

\* second switch: which GSDevice class is constructed
DeviceClass(renderer, w32) ==
    CASE renderer = "OGL_HW" -> "GSDeviceOGL"
      [] renderer = "OGL_SW" -> "GSDeviceOGL"
      [] renderer = "Null"   -> "GSDeviceNull"
      [] OTHER               -> IF w32 THEN "GSDevice11" ELSE "GSDeviceOGL"

\* dev = new GSDevice...(); ok = FALSE is `new` yielding no object
NewDevice(st, renderer, w32, ok) ==
    IF ok
    THEN Log([st EXCEPT !.dev = st.next,
                        !.live = @ \cup {st.next},
                        !.devClass = DeviceClass(renderer, w32),
                        !.next = @ + 1], "new GSDevice", st.next)
    ELSE [st EXCEPT !.dev = NULL]

\* third switch: which GSRenderer class is constructed
RendererClass(renderer, w32) ==
    CASE renderer = "OGL_HW" -> "GSRendererOGL"
      [] renderer = "OGL_SW" -> "GSRendererSW"
      [] renderer = "Null"   -> "GSRendererNull"
      [] OTHER               -> IF w32 THEN "GSRendererDX11" ELSE "GSRendererOGL"

\* variant: a software Renderer that is kept takes the option again
NewRenderer_Reread(st, renderer, w32, ok) ==
    IF st.s_gs # NULL
    THEN IF st.gs_kind = "GSRendererSW"
         THEN LET g == GetConfigI(st, "extrathreads")
              IN  [st EXCEPT !.conf = g.conf, !.raised = g.raised,
                             !.threads = g.ret]
         ELSE st
    ELSE LET cls == RendererClass(renderer, w32)
             g   == GetConfigI(st, "extrathreads")
             t   == IF cls = "GSRendererSW"
                    THEN Log([st EXCEPT !.conf = g.conf, !.raised = g.raised],
                             "GetConfigI", NULL)
                    ELSE st
             a   == IF ok
                    THEN Log([t EXCEPT !.s_gs = st.next, !.gs_kind = cls,
                                       !.threads = IF cls = "GSRendererSW"
                                                   THEN g.ret ELSE 0,
                                       !.m_dev = NULL, !.regsmem = NULL,
                                       !.gs = FreshEmu, !.next = @ + 1],
                             "new GSRenderer", st.next)
                    ELSE t
         IN  IF t.raised THEN t
             ELSE IF cls = "GSRendererDX11" THEN [a EXCEPT !.is_d3d = TRUE]
             ELSE a

\* if (s_gs == NULL) { switch (renderer) { ... s_gs = new ...; } }
\* case OGL_SW: if(threads == -1) threads = theApp.GetConfigI("extrathreads");
\* GSopen2 passes -1, so the option is read whenever the class is built
NewRenderer(st, renderer, w32, ok) ==
    IF st.s_gs # NULL THEN st
    ELSE LET cls == RendererClass(renderer, w32)
             g   == GetConfigI(st, "extrathreads")
             t   == IF cls = "GSRendererSW"
                    THEN Log([st EXCEPT !.conf = g.conf, !.raised = g.raised],
                             "GetConfigI", NULL)
                    ELSE st
             a   == IF ok
                    THEN Log([t EXCEPT !.s_gs = st.next, !.gs_kind = cls,
                                       !.threads = IF cls = "GSRendererSW"
                                                   THEN g.ret ELSE 0,
                                       !.m_dev = NULL, !.regsmem = NULL,
                                       !.gs = FreshEmu, !.next = @ + 1],
                             "new GSRenderer", st.next)
                    ELSE t
         IN  IF t.raised THEN t
             ELSE IF cls = "GSRendererDX11" THEN [a EXCEPT !.is_d3d = TRUE]
             ELSE a

\* variant: a failed CreateDevice is reported as success
BindAndCreate_Ret0(st, basemem, cdOk) ==
    LET a == SetRegsMem(st, basemem)
        b == CreateDevice(a, a.dev, cdOk)
    IN  IF ~cdOk
        THEN [GSclose(Log(b, "GSclose", NULL)) EXCEPT !.ret = 0]
        ELSE [b EXCEPT !.ret = 0]

\* variant: register memory is bound only for a Renderer that has none
BindAndCreate_BindNew(st, basemem, cdOk) ==
    LET a == IF st.regsmem = NULL THEN SetRegsMem(st, basemem) ELSE st
        b == CreateDevice(a, a.dev, cdOk)
    IN  IF ~cdOk
        THEN [GSclose(Log(b, "GSclose", NULL)) EXCEPT !.ret = -1]
        ELSE [b EXCEPT !.ret = 0]

\* s_gs->SetRegsMem(basemem); if(!s_gs->CreateDevice(dev)) { GSclose(); return -1; } return 0;
BindAndCreate(st, basemem, cdOk) ==
    LET a == SetRegsMem(st, basemem)
        b == CreateDevice(a, a.dev, cdOk)
    IN  IF ~cdOk
        THEN [GSclose(Log(b, "GSclose", NULL)) EXCEPT !.ret = -1]
        ELSE [b EXCEPT !.ret = 0]

\* variant: no `if (dev == NULL) return -1;`
_GSopen_NoDevCheck(st, renderer, w32, basemem, glOk, devOk, gsOk, cdOk) ==
    LET s0 == [st EXCEPT !.is_d3d = FALSE, !.renderer = renderer]
        s1 == TearDownOnChange(s0, renderer)
        s2 == LoadGL(s1, renderer, glOk)
        s3 == NewDevice(s2, renderer, w32, devOk)
        s4 == NewRenderer(s3, renderer, w32, gsOk)
    IN  IF s4.raised THEN s4
        ELSE IF s4.s_gs = NULL THEN [s4 EXCEPT !.ret = -1]
        ELSE BindAndCreate(s4, basemem, cdOk)

\* an exception leaves the function where it is thrown
_GSopen(st, renderer, w32, basemem, glOk, devOk, gsOk, cdOk) ==
    LET s0 == [st EXCEPT !.is_d3d = FALSE, !.renderer = renderer]
        s1 == TearDownOnChange(s0, renderer)
        s2 == LoadGL(s1, renderer, glOk)
        s3 == NewDevice(s2, renderer, w32, devOk)
        s4 == NewRenderer(s3, renderer, w32, gsOk)
    IN  IF s3.dev = NULL THEN [s3 EXCEPT !.ret = -1]
        ELSE IF s4.raised THEN s4
        ELSE IF s4.s_gs = NULL THEN [s4 EXCEPT !.ret = -1]
        ELSE BindAndCreate(s4, basemem, cdOk)

\* --------------------------------------------------------------- GSopen2
\* variant: bit 0 instead of bit 2
ToggleState_BitZero(flags) == (flags % 2) = 1

\* const bool toggle_state = !!(flags & 4);
ToggleState(flags) == ((flags \div 4) % 2) = 1

\* variant: the option string is looked at before the context type
ResolveRenderer_OptionFirst(ctx, opt) ==
    CASE opt = "Software" -> "OGL_SW"
      [] ctx = "DIRECT3D" -> "DX1011_HW"
      [] ctx = "NONE"     -> "Null"
      [] OTHER            -> "OGL_HW"

\* variant: the strcmp result is read the other way round
ResolveRenderer_Swapped(ctx, opt) ==
    CASE ctx = "DIRECT3D" -> "DX1011_HW"
      [] ctx = "NONE"     -> "Null"
      [] OTHER            -> IF opt = "Software" THEN "OGL_HW" ELSE "OGL_SW"

\* switch (hw_render.context_type)
ResolveRenderer(ctx, opt) ==
    CASE ctx = "DIRECT3D" -> "DX1011_HW"
      [] ctx = "NONE"     -> "Null"
      [] OTHER            -> IF opt = "Software" THEN "OGL_SW" ELSE "OGL_HW"

\* SW -> HW and HW -> SW (F9 Switch)
ToggleSwap(type, w32) ==
    CASE type = "DX1011_HW" /\ w32 -> "OGL_SW"
      [] type = "OGL_SW"           -> "OGL_HW"
      [] type = "OGL_HW"           -> "OGL_SW"
      [] OTHER                     -> "OGL_SW"

\* the variant GSopen2 hands to _GSopen
RequestedRenderer(ctx, opt, stored, flags, w32) ==
    LET t == ResolveRenderer(ctx, opt)
    IN  IF t # "Undefined" /\ stored # ToggleState(flags)
        THEN ToggleSwap(t, w32)
        ELSE t

GSopen2(st, flags, basemem, ctx, opt, w32, glOk, devOk, gsOk, cdOk) ==
    LET r == RequestedRenderer(ctx, opt, st.toggle, flags, w32)
        a == [st EXCEPT !.type = r, !.toggle = ToggleState(flags)]
    IN  _GSopen(a, r, w32, basemem, glOk, devOk, gsOk, cdOk)

\* ---------------------------------------------------------------- GSinit
\* variant: no `if (is_initialised) return;`
AppInit_Always(st) ==
    [st EXCEPT !.init = TRUE, !.type = "Undefined",
               !.conf = [k \in DOMAIN @ \cup DOMAIN DefaultConfiguration |->
                           IF k \in DOMAIN DefaultConfiguration
                           THEN DefaultConfiguration[k] ELSE @[k]]]

\* GSdxApp::Init: only the first call sets the current variant and writes
\* the default of every option it knows over what the map holds
AppInit(st) ==
    IF st.init THEN st
    ELSE [st EXCEPT !.init = TRUE, !.type = "Undefined",
                    !.conf = [k \in DOMAIN @ \cup DOMAIN DefaultConfiguration |->
                                IF k \in DOMAIN DefaultConfiguration
                                THEN DefaultConfiguration[k] ELSE @[k]]]

\* theApp.Init(); ...InitVectors(); if (g_const == nullptr) return -1; return 0;
GSinit(st, haveConst) ==
    [AppInit(st) EXCEPT !.vinit = TRUE,
                        !.ret = IF haveConst THEN 0 ELSE -1]

\* ------------------------------------------------------------- the machine
\* a call that ends by an exception leaves the state as it is where the
\* exception is thrown; whether another call follows is up to the host
Commit(st, op, flags, basemem, ctx, opt, devOk, gsOk, cdOk) ==
    /\ s_gs' = st.s_gs
    /\ gs_kind' = st.gs_kind
    /\ gs_threads' = st.threads
    /\ m_dev' = st.m_dev
    /\ regsmem' = st.regsmem
    /\ m_current_renderer_type' = st.type
    /\ is_d3d' = st.is_d3d
    /\ liveDevs' = st.live
    /\ nextId' = st.next
    /\ stored_toggle_state' = st.toggle
    /\ is_initialised' = st.init
    /\ m_current_configuration' = st.conf
    /\ vectors_init' = st.vinit
    /\ gs' = st.gs
    /\ last' = [ op |-> op, ret |-> st.ret, renderer |-> st.renderer,
                 dev |-> st.dev, reachedCD |-> st.reachedCD, calls |-> st.calls,
                 flags |-> flags, basemem |-> basemem, ctx |-> ctx,
                 opt |-> opt, devOk |-> devOk, gsOk |-> gsOk, cdOk |-> cdOk,
                 devClass |-> st.devClass, glOk |-> st.glOk,
                 raised |-> st.raised, crashed |-> st.crashed,
                 size |-> st.size, addr |-> st.addr,
                 pre_s_gs |-> s_gs, pre_m_dev |-> m_dev,
                 sameType |-> (m_current_renderer_type = st.renderer),
                 edge |-> (op = "GSopen2"
                           /\ stored_toggle_state # ToggleState(flags)) ]
    /\ UNCHANGED <<win32, otherVars>>

NoCall ==
    [ op |-> "none", ret |-> 0, renderer |-> "-", dev |-> NULL,
      reachedCD |-> FALSE, calls |-> <<>>, flags |-> 0, basemem |-> NULL, ctx |-> "-", opt |-> "-", devOk |-> TRUE,
      gsOk |-> TRUE, cdOk |-> TRUE,
      devClass |-> "none", glOk |-> TRUE, raised |-> FALSE,
      crashed |-> FALSE, size |-> 0, addr |-> [hi |-> 0, lo |-> 0],
      pre_s_gs |-> NULL, pre_m_dev |-> NULL,
      sameType |-> FALSE, edge |-> FALSE ]

\* no reader of the mask tables
NoRead == [ W |-> 0, tab |-> "-", n |-> 0, k |-> 0, byte |-> -1,
            init |-> FALSE ]

\* static storage after the constructors ran: GSdxApp::GSdxApp calls Init
\* only under _WIN32
InitGS ==
    /\ win32 \in BOOLEAN
    /\ is_initialised = win32
    /\ m_current_renderer_type = IF win32 THEN "Undefined" ELSE "Zero"
    /\ is_d3d = FALSE
    /\ s_gs = NULL
    /\ gs_kind = "none"
    /\ gs_threads = 0
    /\ m_dev = NULL
    /\ regsmem = NULL
    /\ liveDevs = {}
    /\ nextId = 1
    /\ stored_toggle_state = FALSE
    /\ m_current_configuration =
         IF win32 THEN DefaultConfiguration ELSE NoConfiguration
    /\ last = NoCall

\* ARRAY_SIZE(s_Next)
NextLen == 8

\* where the system places the first view it chooses an address for, and
\* how far apart it places the following ones
FirstBase == 64
BaseGap == 32

\* no fifo call yet
NoFifo ==
    [ op |-> "none", size |-> 0, repeat |-> 0, ret |-> NULL, held |-> FALSE,
      h |-> 0, stepFailed |-> FALSE, allocs |-> 0 ]

\* static int s_shm_fd = -1; static HANDLE s_fh = NULL; s_Next zeroed;
\* nothing mapped
InitFifo ==
    /\ s_shm_fd = -1
    /\ s_fh = NULL
    /\ s_Next = [i \in 0..(NextLen - 1) |-> 0]
    /\ vm = [ views |-> {}, handles |-> {}, flen |-> <<>>, mem |-> {},
              nextAddr |-> FirstBase ]
    /\ fcall = NoFifo

\* no freeze-related call yet
NoFreeze ==
    [ op |-> "none", mode |-> "-", ret |-> 0, big |-> FALSE,
      obs |-> [regs |-> 0, crc |-> 0], prevSave |-> FALSE, prevRet |-> 0,
      prevObs |-> [regs |-> 0, crc |-> 0] ]

\* a Renderer starts with reset registers and no game CRC; the host has no
\* buffer
InitFreezeIdle ==
    /\ gs = FreshEmu
    /\ fd = [size |-> 0, data |-> <<>>]
    /\ fz = NoFreeze

Init ==
    /\ InitGS
    /\ vectors_init = FALSE
    /\ vq = NoRead
    /\ InitFifo
    /\ InitFreezeIdle

HostGSinit ==
    \E haveConst \in BOOLEAN :
        Commit(GSinit(St, haveConst), "GSinit", 0, NULL, "-", "-",
               haveConst, TRUE, TRUE)

\* what the requirement check can find: it is made for the GL variants only
GLOutcomes(ctx, opt, flags) ==
    IF RequestedRenderer(ctx, opt, stored_toggle_state, flags, win32)
         \in GLVariants
    THEN BOOLEAN ELSE {TRUE}

HostGSopen2 ==
    /\ nextId + (IF s_gs = NULL THEN 1 ELSE 0) <= MaxId
    /\ \E flags \in FlagValues, basemem \in BaseMems, ctx \in ContextTypes,
          opt \in OptionStrings, devOk \in BOOLEAN :
       \E gsOk \in (IF devOk /\ s_gs = NULL THEN BOOLEAN ELSE {TRUE}) :
       \E cdOk \in (IF devOk /\ gsOk THEN BOOLEAN ELSE {TRUE}) :
       \E glOk \in GLOutcomes(ctx, opt, flags) :
        Commit(GSopen2(St, flags, basemem, ctx, opt, win32, glOk, devOk, gsOk,
                       cdOk),
               "GSopen2", flags, basemem, ctx, opt, devOk, gsOk, cdOk)

HostGSclose ==
    Commit(GSclose(St), "GSclose", 0, NULL, "-", "-", TRUE, TRUE, TRUE)

HostGSshutdown ==
    Commit(GSshutdown(St), "GSshutdown", 0, NULL, "-", "-", TRUE, TRUE, TRUE)

Next ==
    \/ HostGSinit
    \/ HostGSopen2
    \/ HostGSclose
    \/ HostGSshutdown

Spec == Init /\ [][Next]_vars


\* ---------------------------------------------------- GSVector mask tables
\* the constructor argument 0xffffffff as the int it is converted to
xFFFFFFFF == -1

\* GSVector4i xff[17] of GSVector4i::InitVectors
GSVector4i_xff ==
    <<
      <<\h00000000, \h00000000, \h00000000, \h00000000>>,
      <<\h000000ff, \h00000000, \h00000000, \h00000000>>,
      <<\h0000ffff, \h00000000, \h00000000, \h00000000>>,
      <<\h00ffffff, \h00000000, \h00000000, \h00000000>>,
      <<xFFFFFFFF, \h00000000, \h00000000, \h00000000>>,
      <<xFFFFFFFF, \h000000ff, \h00000000, \h00000000>>,
      <<xFFFFFFFF, \h0000ffff, \h00000000, \h00000000>>,
      <<xFFFFFFFF, \h00ffffff, \h00000000, \h00000000>>,
      <<xFFFFFFFF, xFFFFFFFF, \h00000000, \h00000000>>,
      <<xFFFFFFFF, xFFFFFFFF, \h000000ff, \h00000000>>,
      <<xFFFFFFFF, xFFFFFFFF, \h0000ffff, \h00000000>>,
      <<xFFFFFFFF, xFFFFFFFF, \h00ffffff, \h00000000>>,
      <<xFFFFFFFF, xFFFFFFFF, xFFFFFFFF, \h00000000>>,
      <<xFFFFFFFF, xFFFFFFFF, xFFFFFFFF, \h000000ff>>,
      <<xFFFFFFFF, xFFFFFFFF, xFFFFFFFF, \h0000ffff>>,
      <<xFFFFFFFF, xFFFFFFFF, xFFFFFFFF, \h00ffffff>>,
      <<xFFFFFFFF, xFFFFFFFF, xFFFFFFFF, xFFFFFFFF>>
    >>

\* GSVector4i x0f[17] of GSVector4i::InitVectors
GSVector4i_x0f ==
    <<
      <<\h00000000, \h00000000, \h00000000, \h00000000>>,
      <<\h0000000f, \h00000000, \h00000000, \h00000000>>,
      <<\h00000f0f, \h00000000, \h00000000, \h00000000>>,
      <<\h000f0f0f, \h00000000, \h00000000, \h00000000>>,
      <<\h0f0f0f0f, \h00000000, \h00000000, \h00000000>>,
      <<\h0f0f0f0f, \h0000000f, \h00000000, \h00000000>>,
      <<\h0f0f0f0f, \h00000f0f, \h00000000, \h00000000>>,
      <<\h0f0f0f0f, \h000f0f0f, \h00000000, \h00000000>>,
      <<\h0f0f0f0f, \h0f0f0f0f, \h00000000, \h00000000>>,
      <<\h0f0f0f0f, \h0f0f0f0f, \h0000000f, \h00000000>>,
      <<\h0f0f0f0f, \h0f0f0f0f, \h00000f0f, \h00000000>>,
      <<\h0f0f0f0f, \h0f0f0f0f, \h000f0f0f, \h00000000>>,
      <<\h0f0f0f0f, \h0f0f0f0f, \h0f0f0f0f, \h00000000>>,
      <<\h0f0f0f0f, \h0f0f0f0f, \h0f0f0f0f, \h0000000f>>,
      <<\h0f0f0f0f, \h0f0f0f0f, \h0f0f0f0f, \h00000f0f>>,
      <<\h0f0f0f0f, \h0f0f0f0f, \h0f0f0f0f, \h000f0f0f>>,
      <<\h0f0f0f0f, \h0f0f0f0f, \h0f0f0f0f, \h0f0f0f0f>>
    >>

\* GSVector8i xff[33] of GSVector8i::InitVectors
GSVector8i_xff ==
    <<
      <<\h00000000, \h00000000, \h00000000, \h00000000,
         \h00000000, \h00000000, \h00000000, \h00000000>>,
      <<\h000000ff, \h00000000, \h00000000, \h00000000,
         \h00000000, \h00000000, \h00000000, \h00000000>>,
      <<\h0000ffff, \h00000000, \h00000000, \h00000000,
         \h00000000, \h00000000, \h00000000, \h00000000>>,
      <<\h00ffffff, \h00000000, \h00000000, \h00000000,
         \h00000000, \h00000000, \h00000000, \h00000000>>,
      <<xFFFFFFFF, \h00000000, \h00000000, \h00000000,
         \h00000000, \h00000000, \h00000000, \h00000000>>,
      <<xFFFFFFFF, \h000000ff, \h00000000, \h00000000,
         \h00000000, \h00000000, \h00000000, \h00000000>>,
      <<xFFFFFFFF, \h0000ffff, \h00000000, \h00000000,
         \h00000000, \h00000000, \h00000000, \h00000000>>,
      <<xFFFFFFFF, \h00ffffff, \h00000000, \h00000000,
         \h00000000, \h00000000, \h00000000, \h00000000>>,
      <<xFFFFFFFF, xFFFFFFFF, \h00000000, \h00000000,
         \h00000000, \h00000000, \h00000000, \h00000000>>,
      <<xFFFFFFFF, xFFFFFFFF, \h000000ff, \h00000000,
         \h00000000, \h00000000, \h00000000, \h00000000>>,
      <<xFFFFFFFF, xFFFFFFFF, \h0000ffff, \h00000000,
         \h00000000, \h00000000, \h00000000, \h00000000>>,
      <<xFFFFFFFF, xFFFFFFFF, \h00ffffff, \h00000000,
         \h00000000, \h00000000, \h00000000, \h00000000>>,
      <<xFFFFFFFF, xFFFFFFFF, xFFFFFFFF, \h00000000,
         \h00000000, \h00000000, \h00000000, \h00000000>>,
      <<xFFFFFFFF, xFFFFFFFF, xFFFFFFFF, \h000000ff,
         \h00000000, \h00000000, \h00000000, \h00000000>>,
      <<xFFFFFFFF, xFFFFFFFF, xFFFFFFFF, \h0000ffff,
         \h00000000, \h00000000, \h00000000, \h00000000>>,
      <<xFFFFFFFF, xFFFFFFFF, xFFFFFFFF, \h00ffffff,
         \h00000000, \h00000000, \h00000000, \h00000000>>,
      <<xFFFFFFFF, xFFFFFFFF, xFFFFFFFF, xFFFFFFFF,
         \h00000000, \h00000000, \h00000000, \h00000000>>,
      <<xFFFFFFFF, xFFFFFFFF, xFFFFFFFF, xFFFFFFFF,
         \h000000ff, \h00000000, \h00000000, \h00000000>>,
      <<xFFFFFFFF, xFFFFFFFF, xFFFFFFFF, xFFFFFFFF,
         \h0000ffff, \h00000000, \h00000000, \h00000000>>,
      <<xFFFFFFFF, xFFFFFFFF, xFFFFFFFF, xFFFFFFFF,
         \h00ffffff, \h00000000, \h00000000, \h00000000>>,
      <<xFFFFFFFF, xFFFFFFFF, xFFFFFFFF, xFFFFFFFF,
         xFFFFFFFF, \h00000000, \h00000000, \h00000000>>,
      <<xFFFFFFFF, xFFFFFFFF, xFFFFFFFF, xFFFFFFFF,
         xFFFFFFFF, \h000000ff, \h00000000, \h00000000>>,
      <<xFFFFFFFF, xFFFFFFFF, xFFFFFFFF, xFFFFFFFF,
         xFFFFFFFF, \h0000ffff, \h00000000, \h00000000>>,
      <<xFFFFFFFF, xFFFFFFFF, xFFFFFFFF, xFFFFFFFF,
         xFFFFFFFF, \h00ffffff, \h00000000, \h00000000>>,
      <<xFFFFFFFF, xFFFFFFFF, xFFFFFFFF, xFFFFFFFF,
         xFFFFFFFF, xFFFFFFFF, \h00000000, \h00000000>>,
      <<xFFFFFFFF, xFFFFFFFF, xFFFFFFFF, xFFFFFFFF,
         xFFFFFFFF, xFFFFFFFF, \h000000ff, \h00000000>>,
      <<xFFFFFFFF, xFFFFFFFF, xFFFFFFFF, xFFFFFFFF,
         xFFFFFFFF, xFFFFFFFF, \h0000ffff, \h00000000>>,
      <<xFFFFFFFF, xFFFFFFFF, xFFFFFFFF, xFFFFFFFF,
         xFFFFFFFF, xFFFFFFFF, \h00ffffff, \h00000000>>,
      <<xFFFFFFFF, xFFFFFFFF, xFFFFFFFF, xFFFFFFFF,
         xFFFFFFFF, xFFFFFFFF, xFFFFFFFF, \h00000000>>,
      <<xFFFFFFFF, xFFFFFFFF, xFFFFFFFF, xFFFFFFFF,
         xFFFFFFFF, xFFFFFFFF, xFFFFFFFF, \h000000ff>>,
      <<xFFFFFFFF, xFFFFFFFF, xFFFFFFFF, xFFFFFFFF,
         xFFFFFFFF, xFFFFFFFF, xFFFFFFFF, \h0000ffff>>,
      <<xFFFFFFFF, xFFFFFFFF, xFFFFFFFF, xFFFFFFFF,
         xFFFFFFFF, xFFFFFFFF, xFFFFFFFF, \h00ffffff>>,
      <<xFFFFFFFF, xFFFFFFFF, xFFFFFFFF, xFFFFFFFF,
         xFFFFFFFF, xFFFFFFFF, xFFFFFFFF, xFFFFFFFF>>
    >>

\* GSVector8i x0f[33] of GSVector8i::InitVectors
GSVector8i_x0f ==
    <<
      <<\h00000000, \h00000000, \h00000000, \h00000000,
         \h00000000, \h00000000, \h00000000, \h00000000>>,
      <<\h0000000f, \h00000000, \h00000000, \h00000000,
         \h00000000, \h00000000, \h00000000, \h00000000>>,
      <<\h00000f0f, \h00000000, \h00000000, \h00000000,
         \h00000000, \h00000000, \h00000000, \h00000000>>,
      <<\h000f0f0f, \h00000000, \h00000000, \h00000000,
         \h00000000, \h00000000, \h00000000, \h00000000>>,
      <<\h0f0f0f0f, \h00000000, \h00000000, \h00000000,
         \h00000000, \h00000000, \h00000000, \h00000000>>,
      <<\h0f0f0f0f, \h0000000f, \h00000000, \h00000000,
         \h00000000, \h00000000, \h00000000, \h00000000>>,
      <<\h0f0f0f0f, \h00000f0f, \h00000000, \h00000000,
         \h00000000, \h00000000, \h00000000, \h00000000>>,
      <<\h0f0f0f0f, \h000f0f0f, \h00000000, \h00000000,
         \h00000000, \h00000000, \h00000000, \h00000000>>,
      <<\h0f0f0f0f, \h0f0f0f0f, \h00000000, \h00000000,
         \h00000000, \h00000000, \h00000000, \h00000000>>,
      <<\h0f0f0f0f, \h0f0f0f0f, \h0000000f, \h00000000,
         \h00000000, \h00000000, \h00000000, \h00000000>>,
      <<\h0f0f0f0f, \h0f0f0f0f, \h00000f0f, \h00000000,
         \h00000000, \h00000000, \h00000000, \h00000000>>,
      <<\h0f0f0f0f, \h0f0f0f0f, \h000f0f0f, \h00000000,
         \h00000000, \h00000000, \h00000000, \h00000000>>,
      <<\h0f0f0f0f, \h0f0f0f0f, \h0f0f0f0f, \h00000000,
         \h00000000, \h00000000, \h00000000, \h00000000>>,
      <<\h0f0f0f0f, \h0f0f0f0f, \h0f0f0f0f, \h0000000f,
         \h00000000, \h00000000, \h00000000, \h00000000>>,
      <<\h0f0f0f0f, \h0f0f0f0f, \h0f0f0f0f, \h00000f0f,
         \h00000000, \h00000000, \h00000000, \h00000000>>,
      <<\h0f0f0f0f, \h0f0f0f0f, \h0f0f0f0f, \h000f0f0f,
         \h00000000, \h00000000, \h00000000, \h00000000>>,
      <<\h0f0f0f0f, \h0f0f0f0f, \h0f0f0f0f, \h0f0f0f0f,
         \h00000000, \h00000000, \h00000000, \h00000000>>,
      <<\h0f0f0f0f, \h0f0f0f0f, \h0f0f0f0f, \h0f0f0f0f,
         \h0000000f, \h00000000, \h00000000, \h00000000>>,
      <<\h0f0f0f0f, \h0f0f0f0f, \h0f0f0f0f, \h0f0f0f0f,
         \h00000f0f, \h00000000, \h00000000, \h00000000>>,
      <<\h0f0f0f0f, \h0f0f0f0f, \h0f0f0f0f, \h0f0f0f0f,
         \h000f0f0f, \h00000000, \h00000000, \h00000000>>,
      <<\h0f0f0f0f, \h0f0f0f0f, \h0f0f0f0f, \h0f0f0f0f,
         \h0f0f0f0f, \h00000000, \h00000000, \h00000000>>,
      <<\h0f0f0f0f, \h0f0f0f0f, \h0f0f0f0f, \h0f0f0f0f,
         \h0f0f0f0f, \h0000000f, \h00000000, \h00000000>>,
      <<\h0f0f0f0f, \h0f0f0f0f, \h0f0f0f0f, \h0f0f0f0f,
         \h0f0f0f0f, \h00000f0f, \h00000000, \h00000000>>,
      <<\h0f0f0f0f, \h0f0f0f0f, \h0f0f0f0f, \h0f0f0f0f,
         \h0f0f0f0f, \h000f0f0f, \h00000000, \h00000000>>,
      <<\h0f0f0f0f, \h0f0f0f0f, \h0f0f0f0f, \h0f0f0f0f,
         \h0f0f0f0f, \h0f0f0f0f, \h00000000, \h00000000>>,
      <<\h0f0f0f0f, \h0f0f0f0f, \h0f0f0f0f, \h0f0f0f0f,
         \h0f0f0f0f, \h0f0f0f0f, \h0000000f, \h00000000>>,
      <<\h0f0f0f0f, \h0f0f0f0f, \h0f0f0f0f, \h0f0f0f0f,
         \h0f0f0f0f, \h0f0f0f0f, \h00000f0f, \h00000000>>,
      <<\h0f0f0f0f, \h0f0f0f0f, \h0f0f0f0f, \h0f0f0f0f,
         \h0f0f0f0f, \h0f0f0f0f, \h000f0f0f, \h00000000>>,
      <<\h0f0f0f0f, \h0f0f0f0f, \h0f0f0f0f, \h0f0f0f0f,
         \h0f0f0f0f, \h0f0f0f0f, \h0f0f0f0f, \h00000000>>,
      <<\h0f0f0f0f, \h0f0f0f0f, \h0f0f0f0f, \h0f0f0f0f,
         \h0f0f0f0f, \h0f0f0f0f, \h0f0f0f0f, \h0000000f>>,
      <<\h0f0f0f0f, \h0f0f0f0f, \h0f0f0f0f, \h0f0f0f0f,
         \h0f0f0f0f, \h0f0f0f0f, \h0f0f0f0f, \h00000f0f>>,
      <<\h0f0f0f0f, \h0f0f0f0f, \h0f0f0f0f, \h0f0f0f0f,
         \h0f0f0f0f, \h0f0f0f0f, \h0f0f0f0f, \h000f0f0f>>,
      <<\h0f0f0f0f, \h0f0f0f0f, \h0f0f0f0f, \h0f0f0f0f,
         \h0f0f0f0f, \h0f0f0f0f, \h0f0f0f0f, \h0f0f0f0f>>
    >>

\* the initialiser list of a table: W is the vector width in bytes
Initialiser(W, tab) ==
    CASE W = 16 /\ tab = "xff" -> GSVector4i_xff
      [] W = 16 /\ tab = "x0f" -> GSVector4i_x0f
      [] W = 32 /\ tab = "xff" -> GSVector8i_xff
      [] W = 32 /\ tab = "x0f" -> GSVector8i_x0f

\* variant: the copy loop stops one entry early
InitVectors_Short(W, tab) ==
    [n \in 0..W |-> IF n < W THEN Initialiser(W, tab)[n + 1]
                    ELSE [i \in 1..(W \div 4) |-> 0]]

\* for (size_t n = 0; n < countof(xff); ++n) m_xff[n] = xff[n];
\* and the same for x0f: the static table after the loop, indexed from 0
InitVectors(W, tab) ==
    [n \in 0..W |-> Initialiser(W, tab)[n + 1]]

\* the static table m_xff / m_x0f of the W-byte vector class
StaticTable(W, tab) ==
    IF vectors_init THEN InitVectors(W, tab)
    ELSE [n \in 0..W |-> [i \in 1..(W \div 4) |-> 0]]

\* byte k of a vector built from 32-bit ints, the first constructor argument
\* holding bytes 0..3; \div and % floor, as the two's complement shift does
ByteOf(vec, k) == (vec[(k \div 4) + 1] \div (256 ^ (k % 4))) % 256

\* GSVector4i::InitVectors(); GSVector8i::InitVectors();
HostInitVectors ==
    /\ vectors_init' = TRUE
    /\ UNCHANGED <<vq, win32, gsVars, fifoVars, freezeVars>>

\* the reader looks at byte k of xff(n) / x0f(n)
HostReadMask ==
    /\ vq' = [vq EXCEPT !.byte = ByteOf(StaticTable(vq.W, vq.tab)[vq.n], vq.k),
                        !.init = vectors_init]
    /\ UNCHANGED <<vectors_init, win32, gsVars, fifoVars, freezeVars>>

NextVec ==
    \/ HostInitVectors
    \/ HostReadMask

\* every table, entry and byte a reader can ask for
InitVec ==
    /\ InitGS
    /\ InitFifo
    /\ InitFreezeIdle
    /\ vectors_init = FALSE
    /\ \E W \in {16, 32}, tab \in {"xff", "x0f"} :
       \E n \in 0..W, k \in 0..(W - 1) :
         vq = [ W |-> W, tab |-> tab, n |-> n, k |-> k, byte |-> -1,
                init |-> FALSE ]

SpecVec == InitVec /\ [][NextVec]_vars


\* ------------------------------------------------------------ fifo_alloc
\* Addresses and file offsets count bytes.  A view is a mapped range:
\* addr is its first address, len its length, off the file offset of its
\* first byte and h the file it maps.  Files are numbered from 1 in the
\* order they were created; the number is also the descriptor / handle.

\* (void*)-1, what mmap returns when it fails
MAP_FAILED == -1

\* a fifth failed segment mapping gives up: mmap_segment_failed > 4
MaxSegmentFailed == 4

\* ------------------------------------------------------------ input sets
\* size arguments, in bytes
FifoSizes == {2}

\* largest repeat argument tried below ARRAY_SIZE(s_Next)
MaxRepeat == 3

\* fifo_alloc calls the host makes
MaxFifoAllocs == 2

\* repeat arguments; the Windows build also gets the first one it refuses
Repeats(w32) == (1..MaxRepeat) \cup (IF w32 THEN {NextLen} ELSE {})

\* for the Windows build: attempt after attempt, the segment index whose
\* mapping the system refuses; none where no segment is mapped
FailSeqs(repeat, cfmOk) ==
    IF repeat >= NextLen \/ ~cfmOk THEN {<<>>}
    ELSE UNION { [1..m -> 1..(repeat - 1)] : m \in 0..(MaxSegmentFailed + 1) }

\* for the Windows build: which of the MapViewOfFile calls for the base
\* fails, 0 for none
BaseFails(repeat, cfmOk) ==
    IF repeat >= NextLen \/ ~cfmOk THEN {0} ELSE 0..(MaxSegmentFailed + 1)

\* the memory state fifo_alloc and fifo_free work on
FSt ==
    [ s_shm_fd |-> s_shm_fd, s_fh |-> s_fh, s_Next |-> s_Next,
      views |-> vm.views, handles |-> vm.handles, flen |-> vm.flen,
      mem |-> vm.mem, nextAddr |-> vm.nextAddr, ret |-> NULL, h |-> 0,
      stepFailed |-> FALSE ]

\* the view an address lies in
ViewsAt(views, addr) ==
    {v \in views : v.addr <= addr /\ addr < v.addr + v.len}

\* the file byte an address refers to: <<file, offset>>, or <<0, 0>> if the
\* address is not mapped
Backing(views, addr) ==
    IF ViewsAt(views, addr) = {} THEN <<0, 0>>
    ELSE LET v == CHOOSE v \in ViewsAt(views, addr) : TRUE
         IN  <<v.h, v.off + (addr - v.addr)>>

\* shm_open / CreateFileMapping: a new file of the given length, open
CreateFile(st, len) ==
    LET h == Len(st.flen) + 1
    IN  [st EXCEPT !.flen = Append(@, len), !.handles = @ \cup {h}, !.h = h]

\* close / CloseHandle
CloseFile(st, h) == [st EXCEPT !.handles = @ \ {h}]

\* mmap(nullptr, len, ..., MAP_SHARED, fd, 0) / MapViewOfFile(h, ..., 0, 0, len):
\* the system chooses the address; the view is recorded in pieces of `piece`
\* bytes so that a later mapping over a part of it replaces that part
MapAnywhere(st, h, len, piece) ==
    [st EXCEPT
        !.views = @ \cup { [addr |-> st.nextAddr + j * piece,
                            len |-> piece, off |-> j * piece, h |-> h] :
                           j \in 0..((len \div piece) - 1) },
        !.ret = st.nextAddr,
        !.nextAddr = @ + BaseGap]

\* a mapping call that failed
Failed(st, ret) == [st EXCEPT !.ret = ret, !.stepFailed = TRUE]

\* munmap(addr, len): every view that begins inside the range goes
Unmap(st, addr, len) ==
    [st EXCEPT !.views = {v \in @ : ~(addr <= v.addr /\ v.addr < addr + len)}]

\* UnmapViewOfFile(addr): the view that begins at addr goes
UnmapViewOfFile(st, addr) ==
    [st EXCEPT !.views = {v \in @ : v.addr # addr}]

\* ----------------------------------------------------------- POSIX build
RECURSIVE PosixSegments(_, _, _, _, _, _)
\* for (size_t i = 1; i < repeat; i++) { base = fifo + size * i;
\*     next = mmap(base, size, ..., MAP_SHARED | MAP_FIXED, s_shm_fd, 0); }
\* segFail are the i whose mmap fails; an mmap at an address computed from
\* MAP_FAILED fails; a MAP_FIXED mapping replaces what was mapped there
PosixSegments(st, fifo, size, repeat, i, segFail) ==
    IF i >= repeat THEN st
    ELSE LET base == fifo + size * i
             a == IF fifo # MAP_FAILED /\ i \notin segFail
                  THEN [Unmap(st, base, size) EXCEPT
                           !.views = @ \cup {[addr |-> base, len |-> size,
                                              off |-> 0, h |-> st.h]}]
                  ELSE [st EXCEPT !.stepFailed = TRUE]
         IN  PosixSegments(a, fifo, size, repeat, i + 1, segFail)

PosixFifoAlloc(st, size, repeat, shmOk, truncOk, mapOk, segFail) ==
    IF ~shmOk THEN Failed([st EXCEPT !.s_shm_fd = -1], NULL)
    ELSE LET a == CreateFile(st, 0)
             b == [a EXCEPT !.s_shm_fd = a.h]
             c == IF truncOk THEN [b EXCEPT !.flen[b.h] = repeat * size]
                  ELSE [b EXCEPT !.stepFailed = TRUE]
             d == IF mapOk THEN MapAnywhere(c, c.h, size * repeat, size)
                  ELSE Failed(c, MAP_FAILED)
         IN  [PosixSegments(d, d.ret, size, repeat, 1, segFail)
                 EXCEPT !.ret = d.ret]

\* if (s_shm_fd < 0) return; munmap(ptr, size * repeat); close(s_shm_fd);
\* s_shm_fd = -1;
PosixFifoFree(st, ptr, size, repeat) ==
    IF st.s_shm_fd < 0 THEN st
    ELSE [CloseFile(Unmap(st, ptr, size * repeat), st.s_shm_fd)
             EXCEPT !.s_shm_fd = -1]

\* --------------------------------------------------------- Windows build
\* fifo_free: UnmapViewOfFile(ptr); every non-zero s_Next[1..] is unmapped
\* and zeroed; CloseHandle(s_fh); s_fh = NULL.  Without a handle it is
\* vmfree(ptr), which releases no view.
WinFifoFree(st, ptr) ==
    IF st.s_fh = NULL THEN st
    ELSE LET a == UnmapViewOfFile(st, ptr)
             b == [a EXCEPT
                     !.views = {v \in @ :
                                 \A i \in 1..(NextLen - 1) :
                                    st.s_Next[i] = 0 \/ v.addr # st.s_Next[i]},
                     !.s_Next = [i \in 0..(NextLen - 1) |-> 0]]
         IN  [CloseFile(b, st.s_fh) EXCEPT !.s_fh = NULL]

RECURSIVE UnmapDown(_, _)
\* do { UnmapViewOfFile(s_Next[i]); s_Next[i] = 0; } while (--i > 0);
UnmapDown(st, i) ==
    LET a == [UnmapViewOfFile(st, st.s_Next[i]) EXCEPT !.s_Next[i] = 0]
    IN  IF i - 1 > 0 THEN UnmapDown(a, i - 1) ELSE a

\* fifo = MapViewOfFile(s_fh, FILE_MAP_ALL_ACCESS, 0, 0, size); bases = 1
\* says this call fails
WinMapBase(w, size) ==
    LET a == IF w.bases # 1 THEN MapAnywhere(w.st, w.st.h, size, size)
             ELSE Failed(w.st, NULL)
    IN  [w EXCEPT !.st = a, !.fifo = a.ret,
                  !.bases = IF @ > 0 THEN @ - 1 ELSE 0]

RECURSIVE WinSegments(_, _, _, _)
\* the for loop of the Windows fifo_alloc from index i on.  w.fails lists,
\* attempt after attempt, the index whose MapViewOfFileEx the system
\* refuses; MapViewOfFileEx also fails where a view is mapped already.
WinSegments(w, size, repeat, i) ==
    IF i >= repeat THEN [w.st EXCEPT !.ret = w.fifo]
    ELSE
      LET base   == w.fifo + size * i
          refuse == w.fails # <<>> /\ Head(w.fails) = i
          free   == \A v \in w.st.views :
                       v.addr + v.len <= base \/ base + size <= v.addr
      IN  IF ~refuse /\ free
          THEN WinSegments(
                 [w EXCEPT !.st.views = @ \cup {[addr |-> base, len |-> size,
                                                 off |-> 0, h |-> w.st.h]},
                           !.st.s_Next[i] = base],
                 size, repeat, i + 1)
          ELSE
            LET a == [w.st EXCEPT !.s_Next[i] = NULL, !.stepFailed = TRUE]
            IN  IF w.failed + 1 > MaxSegmentFailed
                THEN [WinFifoFree(a, w.fifo) EXCEPT !.ret = NULL]
                ELSE WinSegments(
                       WinMapBase([w EXCEPT !.st = UnmapDown(a, i),
                                            !.failed = @ + 1,
                                            !.fails = IF refuse THEN Tail(@)
                                                      ELSE @],
                                  size),
                       size, repeat, 1)

WinFifoAlloc(st, size, repeat, cfmOk, bases, fails) ==
    IF repeat >= NextLen THEN [st EXCEPT !.ret = NULL]
    ELSE IF ~cfmOk THEN Failed([st EXCEPT !.s_fh = NULL], NULL)
    ELSE LET a == CreateFile(st, size)
             w == WinMapBase([st |-> [a EXCEPT !.s_fh = a.h], fifo |-> NULL,
                              failed |-> 0, fails |-> fails, bases |-> bases],
                             size)
         IN  WinSegments(w, size, repeat, 1)

\* ------------------------------------------------------ the fifo machine
\* what remains of written bytes: a file lives while it is open or mapped
LiveMem(st) ==
    {b \in st.mem : b[1] \in st.handles \/ \E v \in st.views : v.h = b[1]}

FifoCommit(st, op, size, repeat) ==
    /\ s_shm_fd' = st.s_shm_fd
    /\ s_fh' = st.s_fh
    /\ s_Next' = st.s_Next
    /\ vm' = [ views |-> st.views, handles |-> st.handles, flen |-> st.flen,
               mem |-> LiveMem(st), nextAddr |-> st.nextAddr ]
    /\ fcall' = [ op |-> op, size |-> size, repeat |-> repeat, ret |-> st.ret,
                 held |-> (op = "fifo_alloc" /\ st.ret # NULL),
                 h |-> st.h, stepFailed |-> st.stepFailed,
                 allocs |-> fcall.allocs + (IF op = "fifo_alloc" THEN 1 ELSE 0) ]
    /\ UNCHANGED <<win32, gsVars, vecVars, freezeVars>>

\* the host asks for a buffer when it holds none
HostFifoAlloc ==
    /\ ~fcall.held
    /\ fcall.allocs < MaxFifoAllocs
    /\ \E size \in FifoSizes, repeat \in Repeats(win32) :
         IF win32
         THEN \E cfmOk \in BOOLEAN :
              \E bases \in BaseFails(repeat, cfmOk),
                 fails \in FailSeqs(repeat, cfmOk) :
                FifoCommit(WinFifoAlloc(FSt, size, repeat, cfmOk, bases, fails),
                           "fifo_alloc", size, repeat)
         ELSE \E shmOk \in BOOLEAN :
              \E truncOk, mapOk \in (IF shmOk THEN BOOLEAN ELSE {TRUE}),
                 segFail \in (IF shmOk THEN SUBSET (1..(repeat - 1)) ELSE {{}}) :
                FifoCommit(PosixFifoAlloc(FSt, size, repeat, shmOk, truncOk,
                                          mapOk, segFail),
                           "fifo_alloc", size, repeat)

\* the host gives back the buffer it was handed
HostFifoFree ==
    /\ fcall.held
    /\ FifoCommit(IF win32 THEN WinFifoFree(FSt, fcall.ret)
                  ELSE PosixFifoFree(FSt, fcall.ret, fcall.size, fcall.repeat),
                  "fifo_free", fcall.size, fcall.repeat)

\* the addresses of a write of len bytes at offset o of the buffer
WriteRange(o, len) == {fcall.ret + o + j : j \in 0..(len - 1)}

\* the host stores len bytes of value v at offset o of the buffer; a store
\* to an address that is not mapped, or lies behind the end of the file,
\* is a fault and has no successor
HostFifoWrite ==
    /\ fcall.held
    /\ \E o \in 0..(fcall.size * fcall.repeat - 1), len \in {1, 2}, v \in {0, 1} :
        /\ o + len <= fcall.size * fcall.repeat
        /\ \A a \in WriteRange(o, len) :
              LET b == Backing(vm.views, a)
              IN  b[1] # 0 /\ b[2] < vm.flen[b[1]]
        /\ vm' = [vm EXCEPT !.mem =
                    IF v = 1
                    THEN @ \cup {Backing(vm.views, a) : a \in WriteRange(o, len)}
                    ELSE @ \ {Backing(vm.views, a) : a \in WriteRange(o, len)}]
    /\ UNCHANGED <<s_shm_fd, s_fh, s_Next, fcall, win32, gsVars, vecVars,
                   freezeVars>>

\* the byte a load from an address gives
Read(addr) == IF Backing(vm.views, addr) \in vm.mem THEN 1 ELSE 0

NextFifo ==
    \/ HostFifoAlloc
    \/ HostFifoFree
    \/ HostFifoWrite

SpecFifo == Init /\ [][NextFifo]_vars

\* ---------------------------------------------------------------- GSfreeze
\* GSState::Freeze and GSState::Defrost are not part of the sources at
\* hand; they follow the interface description: Freeze with sizeOnly
\* reports the snapshot size, Freeze without it serialises the emulation
\* state, Defrost restores it, both return nonzero and change nothing when
\* the buffer is too small or the header is not a snapshot's.

\* bytes of a snapshot: a header and the emulated registers
SnapSize == 2

\* what the header of a snapshot holds
SnapVersion == 1

\* largest buffer the host tries
MaxCap == 3

\* values of the emulated registers, and game CRCs
EmuStates == {0, 1}
CRCs == {0, 1}

FreezeModes == {"FREEZE_SAVE", "FREEZE_SIZE", "FREEZE_LOAD", "other"}

FzSt ==
    [ s_gs |-> s_gs, gs |-> gs, fd |-> fd, ret |-> 0, crashed |-> FALSE,
      calls |-> <<>> ]

\* a buffer of c bytes the host has not written to
Blank(c) == [i \in 1..c |-> 0]

\* the buffer holds what fd.size says, and that is a whole snapshot
BigEnough(data) == Len(data.data) >= data.size /\ data.size >= SnapSize

Freeze(st, sizeonly) ==
    IF sizeonly THEN [st EXCEPT !.fd.size = SnapSize, !.ret = 0]
    ELSE IF st.fd.data = <<>> \/ st.fd.size < SnapSize
         THEN [st EXCEPT !.ret = -1]
    ELSE [st EXCEPT !.fd.data = [i \in 1..Len(@) |->
                                   CASE i = 1 -> SnapVersion
                                     [] i = 2 -> st.gs.regs
                                     [] OTHER -> @[i]],
                    !.ret = 0]

Defrost(st) ==
    IF st.fd.data = <<>> \/ st.fd.size < SnapSize THEN [st EXCEPT !.ret = -1]
    ELSE IF st.fd.data[1] # SnapVersion THEN [st EXCEPT !.ret = -1]
    ELSE [st EXCEPT !.gs.regs = st.fd.data[2], !.ret = 0]

\* variant: a mode with no case asks the Renderer for the size
GSfreeze_DefaultSize(st, mode) ==
    IF st.s_gs = NULL /\ mode # "other" THEN [st EXCEPT !.crashed = TRUE]
    ELSE CASE mode = "FREEZE_SAVE" -> Freeze(st, FALSE)
           [] mode = "FREEZE_SIZE" -> Freeze(st, TRUE)
           [] mode = "FREEZE_LOAD" -> Defrost(st)
           [] OTHER                -> IF st.s_gs = NULL THEN [st EXCEPT !.ret = 0]
                                      ELSE Freeze(st, TRUE)

\* variant: the Renderer's return value is dropped
GSfreeze_DropRet(st, mode) ==
    IF st.s_gs = NULL /\ mode # "other" THEN [st EXCEPT !.crashed = TRUE]
    ELSE CASE mode = "FREEZE_SAVE" -> [Freeze(st, FALSE) EXCEPT !.ret = 0]
           [] mode = "FREEZE_SIZE" -> [Freeze(st, TRUE) EXCEPT !.ret = 0]
           [] mode = "FREEZE_LOAD" -> [Defrost(st) EXCEPT !.ret = 0]
           [] OTHER                -> [st EXCEPT !.ret = 0]

\* variant: FREEZE_SAVE asks for the size only
GSfreeze_SaveAsSize(st, mode) ==
    IF st.s_gs = NULL /\ mode # "other" THEN [st EXCEPT !.crashed = TRUE]
    ELSE CASE mode = "FREEZE_SAVE" -> Freeze(st, TRUE)
           [] mode = "FREEZE_SIZE" -> Freeze(st, TRUE)
           [] mode = "FREEZE_LOAD" -> Defrost(st)
           [] OTHER                -> [st EXCEPT !.ret = 0]

\* switch (mode) { case FREEZE_SAVE: return s_gs->Freeze(data, false); ... }
\* return 0;  -- s_gs is dereferenced unchecked: without a Renderer the
\* call goes through NULL, which crashed records
GSfreeze(st, mode) ==
    IF st.s_gs = NULL /\ mode # "other" THEN [st EXCEPT !.crashed = TRUE]
    ELSE CASE mode = "FREEZE_SAVE" -> Freeze(st, FALSE)
           [] mode = "FREEZE_SIZE" -> Freeze(st, TRUE)
           [] mode = "FREEZE_LOAD" -> Defrost(st)
           [] OTHER                -> [st EXCEPT !.ret = 0]

\* s_gs->Transfer<3>(mem, size);
GSgifTransfer(st, regs) == Transfer(st, 3, regs)

\* s_gs->SetGameCRC(crc, options);
GSsetGameCRC(st, crc) ==
    IF st.s_gs = NULL THEN OnRenderer(st, "SetGameCRC")
    ELSE [OnRenderer(st, "SetGameCRC") EXCEPT !.gs.crc = crc]

FzCommit(st, op, mode) ==
    /\ gs' = st.gs
    /\ fd' = st.fd
    /\ fz' = [ op |-> IF st.crashed THEN "crash" ELSE op,
               mode |-> mode, ret |-> st.ret,
               big |-> BigEnough(fd), obs |-> gs,
               prevSave |-> ( /\ fz.op = "GSfreeze"
                              /\ fz.mode = "FREEZE_SAVE" /\ fz.big ),
               prevRet |-> fz.ret, prevObs |-> fz.obs ]
    /\ UNCHANGED <<win32, gsVars, vecVars, fifoVars>>

\* the host brings a buffer of c bytes
HostFreezeBuffer ==
    /\ fz.op # "crash"
    /\ \E c \in 0..MaxCap :
         FzCommit([FzSt EXCEPT !.fd = [size |-> c, data |-> Blank(c)]],
                  "buffer", "-")

\* the host never passes a size its buffer does not have to a save or load
HostGSfreeze ==
    /\ fz.op # "crash"
    /\ \E mode \in FreezeModes :
        /\ mode \in {"FREEZE_SAVE", "FREEZE_LOAD"} => Len(fd.data) >= fd.size
        /\ FzCommit(GSfreeze(FzSt, mode), "GSfreeze", mode)

HostGSgifTransfer ==
    /\ fz.op # "crash"
    /\ \E regs \in EmuStates :
         FzCommit(GSgifTransfer(FzSt, regs), "GSgifTransfer", "-")

HostGSsetGameCRC ==
    /\ fz.op # "crash"
    /\ \E crc \in CRCs :
         FzCommit(GSsetGameCRC(FzSt, crc), "GSsetGameCRC", "-")

NextFreeze ==
    \/ HostFreezeBuffer
    \/ HostGSfreeze
    \/ HostGSgifTransfer
    \/ HostGSsetGameCRC

\* the lifecycle state after GSinit and a first GSopen2 that succeeded
\* (flags 0, OpenGL context, option "OpenGL")
OpenedSt(w32) ==
    GSopen2([ s_gs |-> NULL, gs_kind |-> "none", threads |-> 0,
              m_dev |-> NULL,
              regsmem |-> NULL, type |-> "Undefined", is_d3d |-> FALSE,
              live |-> {}, next |-> 1, toggle |-> FALSE, init |-> TRUE,
              conf |-> DefaultConfiguration, vinit |-> TRUE,
              gs |-> FreshEmu, calls |-> <<>>, ret |-> 0, dev |-> NULL,
              renderer |-> "-", reachedCD |-> FALSE, devClass |-> "none",
              glOk |-> TRUE, raised |-> FALSE, crashed |-> FALSE,
              size |-> 0, addr |-> [hi |-> 0, lo |-> 0] ],
            0, 1, "OPENGL", "OpenGL", w32, TRUE, TRUE, TRUE, TRUE)

InitOpened ==
    /\ win32 \in BOOLEAN
    /\ is_initialised = TRUE
    /\ m_current_renderer_type = OpenedSt(win32).type
    /\ is_d3d = OpenedSt(win32).is_d3d
    /\ s_gs = OpenedSt(win32).s_gs
    /\ gs_kind = OpenedSt(win32).gs_kind
    /\ gs_threads = OpenedSt(win32).threads
    /\ m_dev = OpenedSt(win32).m_dev
    /\ regsmem = OpenedSt(win32).regsmem
    /\ liveDevs = OpenedSt(win32).live
    /\ nextId = OpenedSt(win32).next
    /\ stored_toggle_state = OpenedSt(win32).toggle
    /\ m_current_configuration = OpenedSt(win32).conf
    /\ last = [ NoCall EXCEPT !.op = "GSopen2",
                              !.renderer = OpenedSt(win32).renderer,
                              !.dev = OpenedSt(win32).dev,
                              !.reachedCD = OpenedSt(win32).reachedCD,
                              !.calls = OpenedSt(win32).calls,
                              !.basemem = 1, !.ctx = "OPENGL",
                              !.opt = "OpenGL",
                              !.devClass = OpenedSt(win32).devClass ]

\* freeze calls arrive with a Renderer or, before any open, without one
InitFreeze ==
    /\ (InitGS /\ vectors_init = FALSE) \/ (InitOpened /\ vectors_init = TRUE)
    /\ vq = NoRead
    /\ InitFifo
    /\ InitFreezeIdle

SpecFreeze == InitFreeze /\ [][NextFreeze]_vars

\* ------------------------------------------------- _GSopen on its own
\* _GSopen entered with any variant of GSRendererType, whatever the current
\* one is; GSclose and GSshutdown in between.
GSRendererType == {"Undefined", "DX1011_HW", "OGL_HW", "OGL_SW", "Null"}

\* objects constructed in one run of these calls
MaxOpenId == 5

Call_GSopen ==
    /\ nextId + 1 <= MaxOpenId
    /\ \E renderer \in GSRendererType, basemem \in BaseMems,
          devOk \in BOOLEAN :
       \E gsOk \in (IF devOk THEN BOOLEAN ELSE {TRUE}) :
       \E cdOk \in (IF devOk /\ gsOk THEN BOOLEAN ELSE {TRUE}) :
        Commit(_GSopen(St, renderer, win32, basemem, TRUE, devOk, gsOk, cdOk),
               "_GSopen", 0, basemem, "-", "-", devOk, gsOk, cdOk)

NextOpen ==
    \/ Call_GSopen
    \/ HostGSclose
    \/ HostGSshutdown

SpecOpen == Init /\ [][NextOpen]_vars

\* ------------------------------------------------------------ vocabulary
\* everything the lifecycle consists of
lifecycle ==
    <<s_gs, gs_kind, m_dev, regsmem, m_current_renderer_type, is_d3d,
      liveDevs, nextId, stored_toggle_state, is_initialised>>

\* the call that ran last was GSopen2
Opened == last.op = "GSopen2"

\* this step is a successful GSopen2 right after a successful GSopen2
SuccessiveOpens ==
    /\ last.op = "GSopen2"
    /\ last.ret = 0
    /\ last'.op = "GSopen2"
    /\ last'.ret = 0

Called(what, obj) ==
    \E i \in 1..Len(last.calls) : last.calls[i] = <<what, obj>>

\* ------------------------------------------------------ a running session
\* The host opens with a context of no or of OpenGL type, closes, shuts
\* down, and between these makes the calls of a frame.  For a call that is
\* no open, `flags` of the record of the call holds its u32 argument.
U32Args == {0, 1}

RunGSopen2 ==
    /\ nextId + (IF s_gs = NULL THEN 1 ELSE 0) <= MaxId
    /\ \E ctx \in {"NONE", "OPENGL"}, cdOk \in BOOLEAN :
        Commit(GSopen2(St, 0, 1, ctx, "OpenGL", win32, TRUE, TRUE, TRUE, cdOk),
               "GSopen2", 0, 1, ctx, "OpenGL", TRUE, TRUE, cdOk)

RunGSreset ==
    Commit(GSreset(St), "GSreset", 0, NULL, "-", "-", TRUE, TRUE, TRUE)

RunGSgifSoftReset ==
    \E mask \in U32Args :
        Commit(GSgifSoftReset(St, mask), "GSgifSoftReset", mask, NULL, "-",
               "-", TRUE, TRUE, TRUE)

RunGSreadFIFO2 ==
    \E size \in U32Args :
        Commit(GSreadFIFO2(St, size), "GSreadFIFO2", size, NULL, "-", "-",
               TRUE, TRUE, TRUE)

RunGSinitReadFIFO2 ==
    \E size \in U32Args :
        Commit(GSinitReadFIFO2(St, size), "GSinitReadFIFO2", size, NULL, "-",
               "-", TRUE, TRUE, TRUE)

\* addr of GSgifTransfer1: inside the block, at its end, and past it
Transfer1Addrs ==
    { U32Of(0, 0), U32Of(0, 16), U32Of(0, 17), U32Of(0, BlockSize - 16),
      U32Of(0, BlockSize), U32Of(0, BlockSize + 1), U32Of(0, BlockSize + 16),
      U32Of(1, 0), U32Of(U16 - 1, U16 - 1) }

\* the four transfer entry points; for GSgifTransfer1 the record of the
\* call holds addr and, in `size`, the unit count handed to Transfer<0>
RunGSgifTransfer ==
    \E regs \in EmuStates, addr \in Transfer1Addrs :
        \/ Commit(GSgifTransfer(St, regs), "GSgifTransfer", 1, NULL, "-", "-",
                  TRUE, TRUE, TRUE)
        \/ Commit(GSgifTransfer1(St, addr, regs), "GSgifTransfer1", 1, NULL,
                  "-", "-", TRUE, TRUE, TRUE)
        \/ Commit(GSgifTransfer2(St, regs), "GSgifTransfer2", 1, NULL, "-",
                  "-", TRUE, TRUE, TRUE)
        \/ Commit(GSgifTransfer3(St, regs), "GSgifTransfer3", 1, NULL, "-",
                  "-", TRUE, TRUE, TRUE)

RunGSvsync ==
    Commit(GSvsync(St), "GSvsync", 0, NULL, "-", "-", TRUE, TRUE, TRUE)


NextRun ==
    \/ RunGSopen2
    \/ HostGSclose
    \/ HostGSshutdown
    \/ RunGSreset
    \/ RunGSgifSoftReset
    \/ RunGSreadFIFO2
    \/ RunGSinitReadFIFO2
    \/ RunGSgifTransfer
    \/ RunGSvsync

SpecRun == Init /\ [][NextRun]_vars

\* ------------------------------------------------ the configuration surface
\* option names the host reads and writes, and values it writes
HostKeys == {"extrathreads", "vsync"}
ConfigValues == {<<"3">>, <<" ", "-", "1">>, <<"x">>, <<"1", "x">>}

HostSetConfig ==
    \E entry \in HostKeys, value \in ConfigValues :
        Commit(SetConfig(St, entry, value), "SetConfig", 0, NULL, "-", "-",
               TRUE, TRUE, TRUE)

HostGetConfigS ==
    \E entry \in HostKeys :
        Commit(GetConfigS(St, entry), "GetConfigS", 0, NULL, "-", "-",
               TRUE, TRUE, TRUE)

HostGetConfigI ==
    \E entry \in HostKeys :
        Commit(GetConfigI(St, entry), "GetConfigI", 0, NULL, "-", "-",
               TRUE, TRUE, TRUE)

HostGetConfigB ==
    \E entry \in HostKeys :
        Commit(GetConfigB(St, entry), "GetConfigB", 0, NULL, "-", "-",
               TRUE, TRUE, TRUE)

\* opens of a host with an OpenGL context, where every construction succeeds
HostGSopen2GL ==
    /\ nextId + (IF s_gs = NULL THEN 1 ELSE 0) <= MaxId
    /\ \E opt \in OptionStrings :
        Commit(GSopen2(St, 0, 1, "OPENGL", opt, win32, TRUE, TRUE, TRUE, TRUE),
               "GSopen2", 0, 1, "OPENGL", opt, TRUE, TRUE, TRUE)

NextConfig ==
    \/ HostGSinit
    \/ HostSetConfig
    \/ HostGetConfigS
    \/ HostGetConfigI
    \/ HostGetConfigB
    \/ HostGSopen2GL
    \/ HostGSshutdown

SpecConfig == Init /\ [][NextConfig]_vars

\* ---------------------------------------------------------------- claims

\* C1: GSopen2 returns 0 or -1, and it returns 0 exactly when on return a
\* Renderer is live, owns the Device this call built, and the current
\* variant is the requested one.
C1_OpenReturnsZeroIffOpen ==
    Opened =>
        /\ last.ret \in {0, -1}
        /\ (last.ret = 0) <=>
             ( /\ s_gs # NULL
               /\ last.dev # NULL
               /\ m_dev = last.dev
               /\ last.dev \in liveDevs
               /\ m_current_renderer_type = last.renderer )

C1_Witness ==
    /\ Opened
    /\ last.ret = 0
    /\ s_gs # NULL
    /\ m_dev = last.dev
    /\ last.pre_m_dev # NULL

\* C2 (as stated): after two successive successful GSopen2 calls that
\* resolve to different variants, the live Renderer is a newly constructed
\* object of the second variant's class, not the object that served the first.
C2_VariantChangeRebuilds ==
    [][ (SuccessiveOpens /\ last.renderer # last'.renderer) =>
            /\ s_gs' # s_gs
            /\ gs_kind' = RendererClass(last'.renderer, win32) ]_vars

C4_AtMostOneLiveDevice ==
    /\ Cardinality(liveDevs) <= 1
    /\ (s_gs # NULL /\ m_dev # NULL) => Cardinality(liveDevs) = 1

\* C5 (as stated): when no Device is obtained GSopen2 fails and leaves no
\* Renderer alive.
C5_DeviceFailureCloses ==
    (Opened /\ ~last.devOk) =>
        /\ last.ret = -1
        /\ s_gs = NULL
        /\ m_dev = NULL

\* C5 (amended): when no Device is obtained GSopen2 returns -1 having
\* constructed no Device and no Renderer and without reaching CreateDevice;
\* the Renderer and Device that were live before the call are still the
\* live ones.
C5_DeviceFailureKeepsState ==
    [][ (last'.op = "GSopen2" /\ ~last'.devOk) =>
            /\ last'.ret = -1
            /\ last'.dev = NULL
            /\ ~last'.reachedCD
            /\ UNCHANGED <<s_gs, gs_kind, m_dev, regsmem, liveDevs, nextId>> ]_vars

C5_Witness ==
    /\ Opened
    /\ ~last.devOk
    /\ last.ret = -1
    /\ last.pre_m_dev # NULL
    /\ m_dev = last.pre_m_dev
    /\ s_gs = last.pre_s_gs

\* C6: when CreateDevice returns false, GSclose is called before the open
\* returns, the open returns -1, the Renderer is still there with a null
\* device pointer, and the current variant is the requested one.
C6_CreateDeviceFailureUnwinds ==
    (Opened /\ last.reachedCD /\ ~last.cdOk) =>
        /\ last.ret = -1
        /\ Called("GSclose", NULL)
        /\ last.dev # NULL
        /\ s_gs # NULL
        /\ m_dev = NULL
        /\ m_current_renderer_type = last.renderer

C6_Witness ==
    /\ Opened
    /\ last.reachedCD
    /\ ~last.cdOk
    /\ last.ret = -1
    /\ m_dev = NULL

\* C7 (as stated): GSclose with no Device held changes nothing and calls
\* nothing on the Renderer or a Device.
C7_CloseWhenClosedCallsNothing ==
    [][ (last'.op = "GSclose" /\ m_dev = NULL) =>
            /\ UNCHANGED lifecycle
            /\ last'.calls = <<>> ]_vars

\* C7 (amended): GSclose with no Device held changes no lifecycle variable
\* and calls nothing on a Device; with no Renderer it calls nothing at all,
\* with a deviceless Renderer it still calls ResetDevice on that Renderer.
C7_CloseWhenClosedChangesNothing ==
    [][ (last'.op = "GSclose" /\ m_dev = NULL) =>
            /\ UNCHANGED lifecycle
            /\ (s_gs = NULL => last'.calls = <<>>)
            /\ (s_gs # NULL =>
                    last'.calls = << <<"ResetDevice", s_gs>> >>) ]_vars

C7_Witness ==
    /\ last.op = "GSclose"
    /\ last.pre_m_dev = NULL
    /\ last.pre_s_gs # NULL
    /\ last.calls = << <<"ResetDevice", s_gs>> >>

\* C8: GSclose with a Device held resets the Device, then deletes it and
\* clears the Renderer's device pointer; the Renderer object and the current
\* variant stay, and a following GSopen2 of that variant that obtains a
\* Device uses the same Renderer object.
C8_CloseReleasesDeviceOnly ==
    [][ /\ (last'.op = "GSclose" /\ m_dev # NULL) =>
              /\ last'.calls = << <<"ResetDevice", s_gs>>,
                                  <<"GSDevice::Reset", m_dev>>,
                                  <<"delete GSDevice", m_dev>> >>
              /\ m_dev' = NULL
              /\ liveDevs' = liveDevs \ {m_dev}
              /\ s_gs # NULL
              /\ UNCHANGED <<s_gs, gs_kind, m_current_renderer_type>>
        /\ (last.op = "GSclose" /\ s_gs # NULL /\ last'.op = "GSopen2"
              /\ last'.renderer = m_current_renderer_type /\ last'.devOk) =>
              s_gs' = s_gs ]_vars

C8_Witness ==
    /\ last.op = "GSclose"
    /\ last.pre_m_dev # NULL
    /\ Called("delete GSDevice", last.pre_m_dev)
    /\ m_dev = NULL
    /\ s_gs = last.pre_s_gs
    /\ s_gs # NULL

\* C9: GSshutdown can be called in every state, and after it the renderer
\* pointer is null and the current variant is Undefined.
C9_ShutdownAlwaysUndefined ==
    /\ ENABLED HostGSshutdown
    /\ last.op = "GSshutdown" =>
          /\ s_gs = NULL
          /\ m_current_renderer_type = "Undefined"

C9_Witness ==
    /\ last.op = "GSshutdown"
    /\ last.pre_s_gs # NULL
    /\ last.pre_m_dev # NULL
    /\ s_gs = NULL
    /\ m_current_renderer_type = "Undefined"

\* C10 (as stated): a Direct3D context always hands HardwareDX11 to the
\* open and a None context always hands Null, whatever the option string
\* and the toggle flag are.
C10_ContextAlwaysWins ==
    Opened =>
        /\ (last.ctx = "DIRECT3D" => last.renderer = "DX1011_HW")
        /\ (last.ctx = "NONE" => last.renderer = "Null")

\* C10 (amended): without a toggle edge a Direct3D context hands
\* HardwareDX11 to the open and a None context hands Null, for every option
\* string; on a toggle edge either context hands SoftwareGL.
C10_ContextWinsWithoutEdge ==
    (Opened /\ last.ctx \in {"DIRECT3D", "NONE"}) =>
        /\ (~last.edge /\ last.ctx = "DIRECT3D" => last.renderer = "DX1011_HW")
        /\ (~last.edge /\ last.ctx = "NONE" => last.renderer = "Null")
        /\ (last.edge => last.renderer = "OGL_SW")

C10_Witness ==
    /\ Opened
    /\ last.ctx = "DIRECT3D"
    /\ last.opt = "Software"
    /\ ~last.edge
    /\ last.pre_m_dev # NULL
    /\ last.renderer = "DX1011_HW"

\* C11: in GSopen2, when the host context is neither Direct3D nor None and
\* no toggle edge is detected, the variant handed to the open is SoftwareGL
\* if the option string equals "Software" and HardwareGL for every other
\* string.
C11_OptionSelectsVariant ==
    (Opened /\ last.ctx = "OPENGL" /\ ~last.edge) =>
        last.renderer = IF last.opt = "Software" THEN "OGL_SW" ELSE "OGL_HW"

C11_Witness ==
    /\ Opened
    /\ last.ctx = "OPENGL"
    /\ ~last.edge
    /\ last.opt = "OpenGL"
    /\ last.renderer = "OGL_HW"
    /\ last.ret = 0
    /\ gs_kind = "GSRendererOGL"

\* C12 (as stated): whenever bit 2 of flags differs from its value in the
\* previous GSopen2 call, the variant opened is the other mode relative to
\* the variant that was current before this call: current HardwareGL gives
\* SoftwareGL, current SoftwareGL gives HardwareGL, whatever the option
\* string says.
C12_EdgeSwapsCurrentVariant ==
    [][ (last'.op = "GSopen2" /\ last'.edge) =>
            /\ (m_current_renderer_type = "OGL_HW" => last'.renderer = "OGL_SW")
            /\ (m_current_renderer_type = "OGL_SW" => last'.renderer = "OGL_HW")
      ]_vars

\* C13 (as stated): when GSopen2 is called while the current variant is
\* Undefined, the toggle flag is ignored: the variant opened is the one
\* resolved from the host context and the option string alone, also when
\* bit 2 differs from the stored previous toggle value.
C13_ToggleIgnoredWhenUndefined ==
    [][ (last'.op = "GSopen2" /\ m_current_renderer_type = "Undefined") =>
            last'.renderer =
                CASE last'.ctx = "DIRECT3D" -> "DX1011_HW"
                  [] last'.ctx = "NONE"     -> "Null"
                  [] OTHER -> IF last'.opt = "Software"
                              THEN "OGL_SW" ELSE "OGL_HW"
      ]_vars

\* C14 (as stated): with the option string selecting hardware, once an
\* edge call (bit 2 changed) has opened SoftwareGL, a further GSopen2 call
\* with bit 2 held at the same value causes no change of variant: it opens
\* SoftwareGL again.
C14_HeldToggleKeepsVariant ==
    [][ ( /\ last.op = "GSopen2" /\ last.ret = 0 /\ last.edge
          /\ last.ctx = "OPENGL" /\ last.opt = "OpenGL"
          /\ last.renderer = "OGL_SW"
          /\ last'.op = "GSopen2"
          /\ last'.ctx = "OPENGL" /\ last'.opt = "OpenGL"
          /\ ((last'.flags \div 4) % 2) = ((last.flags \div 4) % 2) ) =>
            last'.renderer = "OGL_SW"
      ]_vars

\* C15: GSopen2 depends on flags only through bit 2: from the same state
\* and with the same other inputs, two flags values that agree on bit 2 and
\* differ in other bits leave the same lifecycle state (variant, Renderer,
\* Device, stored toggle), make the same calls and return the same value.
C15_OnlyBitTwoOfFlags ==
    \A f1, f2 \in FlagValues :
        (f1 < f2 /\ ((f1 \div 4) % 2) = ((f2 \div 4) % 2)) =>
            \A basemem \in BaseMems, ctx \in ContextTypes,
               opt \in OptionStrings, devOk \in BOOLEAN :
            \A gsOk \in (IF devOk /\ s_gs = NULL THEN BOOLEAN ELSE {TRUE}) :
            \A cdOk \in (IF devOk /\ gsOk THEN BOOLEAN ELSE {TRUE}) :
            \A glOk \in GLOutcomes(ctx, opt, f1) :
                GSopen2(St, f1, basemem, ctx, opt, win32, glOk, devOk, gsOk, cdOk)
                  = GSopen2(St, f2, basemem, ctx, opt, win32, glOk, devOk, gsOk,
                            cdOk)

C15_Witness ==
    /\ Opened
    /\ last.flags = 5
    /\ last.edge
    /\ last.ret = 0
    /\ stored_toggle_state
    /\ last.pre_s_gs # NULL

\* C16 (as stated): if the OpenGL requirement check made during the open
\* of a GL variant fails, the open reports failure and that call constructs
\* neither a Device nor a Renderer; the check is made before any
\* construction.
C16_FailedGLCheckAbortsOpen ==
    [][ (last'.op = "GSopen2" /\ last'.renderer \in GLVariants
         /\ ~last'.glOk) =>
            /\ last'.ret = -1
            /\ last'.dev = NULL
            /\ nextId' = nextId
            /\ last'.calls[1] = <<"check_gl_requirements", NULL>>
      ]_vars

\* C17: after InitVectors, for W = 16 and W = 32 and every n in 0..W, byte
\* k of xff[n] is 0xff for k < n and 0x00 for k >= n, and byte k of x0f[n]
\* is 0x0f for k < n and 0x00 otherwise; in particular xff[0] and x0f[0]
\* are all-zero and xff[W] is all-ones.
C17_MaskTables ==
    vq.init =>
        /\ vq.byte = IF vq.k < vq.n
                     THEN (IF vq.tab = "xff" THEN 255 ELSE 15)
                     ELSE 0
        /\ (vq.n = 0 => vq.byte = 0)
        /\ (vq.n = vq.W /\ vq.tab = "xff" => vq.byte = 255)

C17_Witness ==
    /\ vq.init
    /\ vq.W = 32
    /\ vq.tab = "xff"
    /\ vq.n = 32
    /\ vq.k = 31
    /\ vq.byte = 255

\* C18 (as stated): after a fifo_alloc(size, R) that returned a buffer, for
\* every k in 1..R-1 and every offset o in [0, size) the address
\* base + k*size + o refers to the same backing byte as base + o, so what
\* was written through one segment is read back through every other.
C18_SegmentsAlias ==
    fcall.held =>
        \A k \in 1..(fcall.repeat - 1), o \in 0..(fcall.size - 1) :
            /\ Backing(vm.views, fcall.ret + k * fcall.size + o)[1] # 0
            /\ Backing(vm.views, fcall.ret + k * fcall.size + o)
                 = Backing(vm.views, fcall.ret + o)
            /\ Read(fcall.ret + k * fcall.size + o) = Read(fcall.ret + o)

\* C19 (as stated): whenever a step of fifo_alloc fails (creating the
\* backing object, sizing it, mapping the base region, mapping a repeat
\* segment), fifo_alloc returns null and on return no view of this call's
\* file is mapped and its descriptor / handle is closed.
C19_FailureRollsBack ==
    (fcall.op = "fifo_alloc" /\ fcall.stepFailed) =>
        /\ fcall.ret = NULL
        /\ fcall.h \notin vm.handles
        /\ \A v \in vm.views : v.h # fcall.h

ReportedSize == GSfreeze(FzSt, "FREEZE_SIZE").fd.size

\* C21: with a Renderer, GSfreeze(FREEZE_SAVE) into a buffer of exactly the
\* size a FREEZE_SIZE query reports returns 0; GSfreeze(FREEZE_SAVE) into a
\* smaller buffer and GSfreeze(FREEZE_LOAD) from a smaller buffer return
\* nonzero and leave the buffer and the Renderer's state as they were.
C21_SizeThenSave ==
    [][ (fz'.op = "GSfreeze" /\ fz'.mode \in {"FREEZE_SAVE", "FREEZE_LOAD"}) =>
          /\ ( fz'.mode = "FREEZE_SAVE" /\ fd.size = ReportedSize
                /\ Len(fd.data) = ReportedSize ) => fz'.ret = 0
          /\ fd.size < ReportedSize =>
                (fz'.ret # 0 /\ fd' = fd /\ gs' = gs)
      ]_vars

C21_Witness ==
    /\ fz.op = "GSfreeze"
    /\ fz.mode = "FREEZE_SAVE"
    /\ fz.ret # 0
    /\ fd = [size |-> 1, data |-> <<0>>]
    /\ s_gs # NULL

\* C22: no exported operation ends by an exception: whatever SetConfig has
\* put into the configuration map, GSopen2 and the configuration getters
\* finish with a result.
C22_NoExceptionCrosses == ~last.raised

\* C23: GSinit returns -1 exactly when g_const is absent and 0 otherwise,
\* and a GSinit that returns -1 has initialised nothing: the configuration
\* map, the initialised flag, the current variant and the vector tables are
\* as before the call.
C23_FailedInitDoesNothing ==
    [][ last'.op = "GSinit" =>
          /\ last'.ret = (IF last'.devOk THEN 0 ELSE -1)
          /\ last'.ret = -1 =>
                /\ m_current_configuration' = m_current_configuration
                /\ is_initialised' = is_initialised
                /\ m_current_renderer_type' = m_current_renderer_type
                /\ vectors_init' = vectors_init
      ]_vars

\* the transfer entry points and vsync
TransferOrVSync ==
    {"GSgifTransfer", "GSgifTransfer1", "GSgifTransfer2", "GSgifTransfer3",
     "GSvsync"}

\* C24: GSreadFIFO2 and GSinitReadFIFO2 called with size 0 do nothing: no
\* operation of the Renderer is invoked and no state changes.  Stated for
\* the calls made while a Renderer is live, where the pointer is valid.
C24_ZeroSizeReadIsNoOp ==
    [][ ( /\ last'.op \in {"GSreadFIFO2", "GSinitReadFIFO2"}
          /\ last'.flags = 0
          /\ last'.pre_s_gs # NULL ) =>
            /\ last'.calls = <<>>
            /\ ~last'.crashed
            /\ UNCHANGED <<s_gs, gs_kind, m_dev, regsmem, liveDevs, gs,
                           m_current_renderer_type>>
      ]_vars

\* C25: when the current variant is Null and the open succeeded (a Renderer
\* with a Device is live), a transfer or vsync call that follows the open
\* or another such call does not fail, leaves the current variant, the
\* Renderer and the Device as they are, and leaves what
\* GetInternalResolution reports unchanged.
C25_NullVariantIsInert ==
    [][ ( /\ m_current_renderer_type = "Null"
          /\ s_gs # NULL
          /\ m_dev # NULL
          /\ last.op \in {"GSopen2"} \cup TransferOrVSync
          /\ last'.op \in TransferOrVSync ) =>
            /\ ~last'.crashed
            /\ UNCHANGED <<m_current_renderer_type, s_gs, gs_kind, m_dev>>
            /\ GetInternalResolution(gs_kind', gs')
                 = GetInternalResolution(gs_kind, gs)
      ]_vars

\* C28: no call handed to the Renderer is executed against a null renderer
\* pointer, and vsync and the transfer entry points are executed only
\* against a Renderer that owns a Device.
C28_RendererCallsAreGuarded ==
    /\ ~last.crashed
    /\ last.op \in TransferOrVSync => last.pre_m_dev # NULL

\* C26: when _GSopen is entered with a variant other than the current one,
\* the first thing it does is destroy the live Renderer, if there is one,
\* and clear the pointer (a failed Device construction that follows leaves
\* no Renderer), and the current variant becomes the requested one; when
\* it is entered with the current variant, the live Renderer is kept.
C26_TearDownOnVariantChange ==
    [][ last'.op = "_GSopen" =>
          /\ m_current_renderer_type # last'.renderer =>
                /\ m_current_renderer_type' = last'.renderer
                /\ s_gs # NULL =>
                      /\ last'.calls[1] = <<"delete GSRenderer", s_gs>>
                      /\ s_gs' # s_gs
                      /\ m_dev \notin liveDevs'
                /\ ~last'.devOk => s_gs' = NULL
          /\ (m_current_renderer_type = last'.renderer /\ s_gs # NULL) =>
                /\ s_gs' = s_gs
                /\ gs_kind' = gs_kind
                /\ \A i \in 1..Len(last'.calls) :
                      last'.calls[i][1] # "delete GSRenderer"
      ]_vars

C26_Witness ==
    /\ last.op = "_GSopen"
    /\ ~last.sameType
    /\ last.pre_s_gs # NULL
    /\ last.pre_m_dev # NULL
    /\ last.ret = 0
    /\ s_gs # last.pre_s_gs

\* C27: between calls, a live Renderer is of the class that the current
\* variant, as GetCurrentRendererType reports it, constructs.
C27_RendererMatchesCurrentVariant ==
    s_gs # NULL => gs_kind = RendererClass(m_current_renderer_type, win32)

\* in the open that ran last, every CreateDevice came after a SetRegsMem of
\* the basemem of that open
BoundBeforeCreateDevice ==
    \A j \in 1..Len(last.calls) :
        last.calls[j][1] = "CreateDevice" =>
            \E i \in 1..(j - 1) : last.calls[i] = <<"SetRegsMem", last.basemem>>

\* C29 (as stated): an open calls SetRegsMem(basemem) before CreateDevice,
\* and a Renderer that is live after any open returned has register memory
\* bound to the basemem of that open.
C29_LiveRendererBoundByLastOpen ==
    last.op = "GSopen2" =>
        /\ BoundBeforeCreateDevice
        /\ s_gs # NULL => regsmem = last.basemem

\* C29 (amended): an open calls SetRegsMem(basemem) before CreateDevice, and
\* a Renderer that is live after an open that got past Device construction
\* has been handed to CreateDevice with register memory bound to the
\* basemem of that open.
C29_BoundWhenPastDeviceConstruction ==
    last.op = "GSopen2" =>
        /\ BoundBeforeCreateDevice
        /\ (last.dev # NULL /\ s_gs # NULL) =>
              (regsmem = last.basemem /\ last.reachedCD)

\* a reused Renderer was bound again and handed a Device
C29_Witness ==
    /\ last.op = "GSopen2"
    /\ last.pre_s_gs # NULL
    /\ s_gs = last.pre_s_gs
    /\ last.dev # NULL
    /\ last.basemem = 2
    /\ regsmem = 2
    /\ Called("CreateDevice", last.dev)

\* the Device and the Renderer that belong to a variant
VariantDevice(renderer) ==
    CASE renderer = "Null"      -> "GSDeviceNull"
      [] renderer = "OGL_SW"    -> "GSDeviceOGL"
      [] renderer = "OGL_HW"    -> "GSDeviceOGL"
      [] renderer = "DX1011_HW" -> "GSDevice11"
      [] OTHER                  -> "none"

VariantRenderer(renderer) ==
    CASE renderer = "Null"      -> "GSRendererNull"
      [] renderer = "OGL_SW"    -> "GSRendererSW"
      [] renderer = "OGL_HW"    -> "GSRendererOGL"
      [] renderer = "DX1011_HW" -> "GSRendererDX11"
      [] OTHER                  -> "none"

\* C30: the Device an open constructs and the Renderer it constructs are
\* those of the requested variant; no requested variant yields a Device or
\* a Renderer of another variant.
C30_ConstructedMatchRequested ==
    last.op = "GSopen2" =>
        /\ last.dev # NULL => last.devClass = VariantDevice(last.renderer)
        /\ (s_gs # NULL /\ s_gs # last.pre_s_gs) =>
              gs_kind = VariantRenderer(last.renderer)

\* what std::stoi makes of the "extrathreads" value held before the call
ExtraThreads == Stoi(Entry(m_current_configuration, "extrathreads")["extrathreads"])

\* C31: an open reads "extrathreads" exactly when it has a Device, no
\* Renderer is live and the class to construct is the software Renderer,
\* and a software Renderer it constructs gets the value read as its thread
\* count; an open that finds a Renderer live keeps it, reads nothing, and
\* leaves its thread count as it is, whatever "extrathreads" holds now.
C31_ThreadsReadAtConstruction ==
    [][ last'.op = "GSopen2" =>
          /\ (\E i \in 1..Len(last'.calls) : last'.calls[i][1] = "GetConfigI")
               <=> ( /\ s_gs = NULL
                     /\ last'.dev # NULL
                     /\ RendererClass(last'.renderer, win32) = "GSRendererSW" )
          /\ (s_gs = NULL /\ s_gs' # NULL /\ gs_kind' = "GSRendererSW") =>
                (~ExtraThreads.raised /\ gs_threads' = ExtraThreads.val)
          /\ s_gs # NULL =>
                (s_gs' = s_gs /\ gs_kind' = gs_kind /\ gs_threads' = gs_threads)
      ]_vars

\* a software Renderer built with the default of 2 threads was kept by an
\* open made after "extrathreads" was set to 3
C31_Witness ==
    /\ last.op = "GSopen2"
    /\ last.pre_s_gs # NULL
    /\ s_gs = last.pre_s_gs
    /\ gs_kind = "GSRendererSW"
    /\ gs_threads = 2
    /\ "extrathreads" \in DOMAIN m_current_configuration
    /\ m_current_configuration["extrathreads"] = <<"3">>

\* C32: the range GSgifTransfer1 hands to the Renderer stays inside the
\* 0x4000-byte block: addr + 16 * count <= 0x4000 for every 32-bit addr.
\* Over the naturals addr + 16 * count <= 0x4000 says that addr is at most
\* 0x4000 and count at most (0x4000 - addr) / 16, which is how it is
\* written here, the sum being a number of up to 33 bits.
C32_Transfer1StaysInBlock ==
    (last.op = "GSgifTransfer1" /\ last.pre_s_gs # NULL) =>
        /\ last.addr.hi = 0
        /\ last.addr.lo <= BlockSize
        /\ last.size <= (BlockSize - last.addr.lo) \div 16

\* what the call of the Renderer that belongs to a mode makes of the state
\* before the step
Dispatched(mode) ==
    CASE mode = "FREEZE_SAVE" -> Freeze(FzSt, FALSE)
      [] mode = "FREEZE_SIZE" -> Freeze(FzSt, TRUE)
      [] mode = "FREEZE_LOAD" -> Defrost(FzSt)
      [] OTHER                -> FzSt

\* C33: GSfreeze hands FREEZE_SAVE to Freeze(data, false), FREEZE_SIZE to
\* Freeze(data, true) and FREEZE_LOAD to Defrost(data): it returns what that
\* call returns and leaves the buffer and the Renderer as that call leaves
\* them; for any other mode it returns 0 and the buffer and the Renderer
\* stay as they are.
C33_FreezeDispatch ==
    [][ fz'.op = "GSfreeze" =>
          /\ fz'.mode \in {"FREEZE_SAVE", "FREEZE_SIZE", "FREEZE_LOAD"} =>
                /\ fz'.ret = Dispatched(fz'.mode).ret
                /\ fd' = Dispatched(fz'.mode).fd
                /\ gs' = Dispatched(fz'.mode).gs
          /\ fz'.mode = "other" => (fz'.ret = 0 /\ fd' = fd /\ gs' = gs)
      ]_vars

\* a mode with no case arrived while a Renderer was live and the buffer
\* held another size than a snapshot has
C33_Witness ==
    /\ fz.op = "GSfreeze"
    /\ fz.mode = "other"
    /\ fz.ret = 0
    /\ s_gs # NULL
    /\ fd.size # SnapSize
    /\ fz.prevSave

\* C34: after every open, is_d3d is true exactly when the live Renderer is
\* the DX11 one.  Stated for the opens that leave a Renderer live.
C34_IsD3DMeansDX11Live ==
    (last.op = "GSopen2" /\ s_gs # NULL) =>
        (is_d3d <=> gs_kind = "GSRendererDX11")

\* C35: the Windows fifo_alloc returns null and creates no mapping object
\* when repeat >= 8; when it returns a buffer, every segment 1..repeat-1 is
\* recorded in s_Next and mapped right after the one before it, and no view
\* of the mapping object is mapped anywhere else (none is left from an
\* attempt that was abandoned).
C35_WinFifoAllocLeavesNoStrayView ==
    (win32 /\ fcall.op = "fifo_alloc") =>
        /\ fcall.repeat >= NextLen => (fcall.ret = NULL /\ fcall.h = 0)
        /\ fcall.ret # NULL =>
              /\ \A k \in 1..(fcall.repeat - 1) :
                    /\ s_Next[k] = fcall.ret + k * fcall.size
                    /\ \E v \in vm.views :
                          v.addr = s_Next[k] /\ v.h = fcall.h
              /\ \A v \in vm.views :
                    v.h = fcall.h =>
                        \E k \in 0..(fcall.repeat - 1) :
                            v.addr = fcall.ret + k * fcall.size

\* C36: a GSinit that finds GSdxApp::Init already run changes neither the
\* configuration map nor the current variant, Renderer live or not; the
\* one that runs it first writes the defaults and sets the current variant
\* to Undefined.
C36_InitIsIdempotent ==
    [][ last'.op = "GSinit" =>
          /\ is_initialised'
          /\ is_initialised =>
                /\ m_current_configuration' = m_current_configuration
                /\ m_current_renderer_type' = m_current_renderer_type
          /\ ~is_initialised =>
                /\ m_current_renderer_type' = "Undefined"
                /\ \A k \in DOMAIN DefaultConfiguration :
                      /\ k \in DOMAIN m_current_configuration'
                      /\ m_current_configuration'[k] = DefaultConfiguration[k]
      ]_vars

\* a GSinit has run while a Renderer was live, after SetConfig had given
\* "extrathreads" the value 3: value and current variant are still there
C36_Witness ==
    /\ last.op = "GSinit"
    /\ s_gs # NULL
    /\ m_current_renderer_type = "OGL_SW"
    /\ "extrathreads" \in DOMAIN m_current_configuration
    /\ m_current_configuration["extrathreads"] = <<"3">>

====
